---- MODULE Spec2Model ----
(***************************************************************************)
(* The era archive import pipeline of src/cli/era.rs: the bridge task that *)
(* feeds archive files through a channel, the processing loop `import`,    *)
(* the per-block body of `process_iter`, the checkpoint/commit of each     *)
(* batch and the final hash index pass.                                    *)
(*                                                                         *)
(* The store (static file writers, database provider) is a collaborator of *)
(* the repository: it is modelled by the contract its call sites rely on   *)
(* (an append needs the next expected key, a commit publishes all staged   *)
(* writes of the provider at once).                                        *)
(***************************************************************************)
EXTENDS Integers, Sequences, FiniteSets, TLC

----------------------------------------------------------------------------
(* Bounds of the model *)

\* most archive files the downloader yields
MaxFiles == 3
\* most block tuples in one archive file
MaxPerFile == 4
\* most headers already in the store when import starts (0 = empty store)
MaxInitLen == 2
\* most polls of a block tuple sequence after its exhaustion
MaxRepolls == 2
\* most invocations of import over the same store (1 = no re-run)
MaxRuns == 2

\* how many blocks more than ERA_STEP an archive file can hold
MaxExtra == 1

\* era.rs:34 `const ERA_STEP: u64 = 8192`, scaled down to 4 blocks
ERA_STEP == 4

----------------------------------------------------------------------------
(* Option values *)

None == <<>>
Some(x) == <<x>>
IsSome(o) == o # None
Unwrap(o) == o[1]

\* the values of max_height that are tried
MaxHeights == {None, Some(0), Some(4), Some(10)}

\* the per-block difficulty patterns that are tried (difficulty n % 3)
DSeeds == {1}

----------------------------------------------------------------------------
(* Blocks and archive files *)

\* header.difficulty() of block n under difficulty pattern ds
Difficulty(n, ds) == (n * ds) % 3

\* number of transactions (and of receipts) of block n
TxCount(n) == n % 3

\* header.hash_slow(): a collision-free digest of the header
hash_slow(header) == <<"hash", header.number, header.difficulty>>

\* a decoded block tuple (header, body, receipts)
Block(n, ds) == [number |-> n, difficulty |-> Difficulty(n, ds), txs |-> TxCount(n)]

\* an archive file holding `per` consecutive blocks from number `lo`
EraFile(lo, per, ds) == [i \in 1..per |-> Block(lo + i - 1, ds)]

RECURSIVE SumDifficulty(_, _)
\* the sum of difficulty over blocks [0, n]
SumDifficulty(n, ds) ==
    IF n < 0 THEN 0 ELSE Difficulty(n, ds) + SumDifficulty(n - 1, ds)

RECURSIVE SumTx(_)
\* the number of transactions of blocks [0, n]
SumTx(n) == IF n < 0 THEN 0 ELSE TxCount(n) + SumTx(n - 1)

\* the entry of block b in the headers segment
HeaderEntry(b, total_difficulty) ==
    [number |-> b.number, difficulty |-> b.difficulty,
     td |-> total_difficulty, hash |-> hash_slow(b)]

\* a consistent store holding blocks 0..len-1, checkpointed and indexed
StoreOf(len, ds) ==
    [headers    |-> [i \in 1..len |->
                        HeaderEntry(Block(i - 1, ds), SumDifficulty(i - 1, ds))],
     bodies     |-> [i \in 1..len |->
                        [first_tx_num |-> SumTx(i - 2), tx_count |-> TxCount(i - 1)]],
     receipts   |-> [i \in 1..SumTx(len - 1) |-> i - 1],
     receipts_block |-> len,
     checkpoint |-> IF len = 0 THEN 0 ELSE len - 1,
     index      |-> {<<hash_slow(Block(n, ds)), n>> : n \in 0..(len - 1)}]

----------------------------------------------------------------------------
(* The store collaborator, as used by process_iter *)

\* get_highest_static_file_block(Headers).unwrap_or_default()
highest_block(s) == IF Len(s.headers) = 0 THEN 0 ELSE Len(s.headers) - 1

\* header_td_by_number(n)
header_td_by_number(s, n) ==
    IF n + 1 \in DOMAIN s.headers THEN Some(s.headers[n + 1].td) ELSE None

\* header_writer.append_header(&header, td, &hash): the key must be the next
append_header(w, b, total_difficulty) ==
    IF b.number # Len(w.headers)
    THEN [ok |-> FALSE, w |-> w]
    ELSE [ok |-> TRUE,
          w  |-> [w EXCEPT !.headers = Append(@, HeaderEntry(b, total_difficulty))]]

\* provider.append_block_bodies(vec![(number, Some(body))], StaticFiles)
append_block_bodies(w, b) ==
    IF b.number # Len(w.bodies)
    THEN [ok |-> FALSE, w |-> w]
    ELSE [ok |-> TRUE,
          w  |-> [w EXCEPT !.bodies =
                     Append(@, [first_tx_num |->
                                   IF Len(w.bodies) = 0 THEN 0
                                   ELSE w.bodies[Len(w.bodies)].first_tx_num
                                        + w.bodies[Len(w.bodies)].tx_count,
                                tx_count |-> b.txs])]]

\* provider.block_body_indices(number)
block_body_indices(w, number) ==
    IF number + 1 \in DOMAIN w.bodies THEN Some(w.bodies[number + 1]) ELSE None

\* receipts_writer.append_receipt(i, &receipt): the tx number must be the next
append_receipt(w, i) ==
    IF i # Len(w.receipts)
    THEN [ok |-> FALSE, w |-> w]
    ELSE [ok |-> TRUE, w |-> [w EXCEPT !.receipts = Append(@, i)]]

RECURSIVE append_receipts(_, _, _)
\* the loop `for receipt in receipts { append_receipt(i, ..)?; i += 1 }`
append_receipts(w, i, k) ==
    IF k = 0 THEN [ok |-> TRUE, w |-> w]
    ELSE LET r == append_receipt(w, i)
         IN  IF r.ok THEN append_receipts(r.w, i + 1, k - 1) ELSE r

\* increment_block that leaves the block counter of the receipts as it is
increment_block_none(w, number) == [ok |-> TRUE, w |-> w]

\* receipts_writer.increment_block(number): the block must be the next
increment_block(w, number) ==
    IF number # w.receipts_block
    THEN [ok |-> FALSE, w |-> w]
    ELSE [ok |-> TRUE, w |-> [w EXCEPT !.receipts_block = @ + 1]]

\* build_index(&provider, hash_collector): upsert every collected pair
build_index(s, collector) ==
    LET new == {collector[i] : i \in DOMAIN collector}
    IN  [s EXCEPT !.index =
            {e \in @ : \A f \in new : f[1] # e[1]} \cup new]

----------------------------------------------------------------------------
(* The channel between the bridge task and import *)

\* an item of the downloader stream: `eyre::Result<Era>`, the k-th archive
\* file or the error of its discovery or download
Ok(k) == [ok |-> TRUE, file |-> k]

Err(k) == [ok |-> FALSE, file |-> k]

\* ok_or_not_found that takes a missing record as a total difficulty of zero
ok_or_zero(t) == [ok |-> TRUE, td |-> IF t = None THEN 0 ELSE Unwrap(t)]

\* `.ok_or(ProviderError::TotalDifficultyNotFound(height))?` on the record
\* header_td_by_number returned
ok_or_not_found(t) ==
    IF t = None THEN [ok |-> FALSE, td |-> 0] ELSE [ok |-> TRUE, td |-> Unwrap(t)]

\* meta_try that drops an error item and lets the loop go on
meta_try_skip(file) == IF file.ok THEN "drain" ELSE "recv"

\* `&meta?`, the first argument of process: an archive goes to process, an
\* error item returns its error out of import
meta_try(file) == IF file.ok THEN "drain" ELSE "failed"

\* no item of the sequence is an error item
NoErrorSent(items) == \A i \in DOMAIN items : items[i] = None \/ Unwrap(items[i]).ok

\* tx_send that puts the item in front of the items not yet received
tx_send_front(ch, item) == <<item>> \o ch

\* `tx.send(Some(file))?` on the channel of `mpsc::channel()`: the item
\* joins the queue behind every item sent before; the queue has no capacity
tx_send(ch, item) == Append(ch, item)

\* end_of_stream that drops the sender without the sentinel
end_of_stream_silent(ch) == ch

\* `tx.send(None)`: the sentinel after the last item of the stream
end_of_stream(ch) == tx_send(ch, None)

\* recv_ready of a receiver that never waits: it returns at once, with
\* RecvError on an empty queue
recv_ready_nowait(ch, t) == TRUE

\* `rx.recv()?` on the receiver of `mpsc::channel()`: the call returns when
\* an item is in the queue or the sender is dropped, and waits until then
recv_ready(ch, t) == ch # <<>> \/ t = "done"

----------------------------------------------------------------------------
(* import: the range of a batch *)

\* block_numbers as process_iter reads it: the two bounds and their kinds; an
\* unbounded side carries the number 0
BoundKinds == {"Included", "Excluded", "Unbounded"}
RangeBounds(sk, a, ek, b) ==
    [start |-> IF sk = "Unbounded" THEN 0 ELSE a, start_kind |-> sk,
     end |-> IF ek = "Unbounded" THEN 0 ELSE b, end_kind |-> ek]

\* `from..=to`, the range import passes
RangeInclusive(a, b) == RangeBounds("Included", a, "Included", b)

\* the clamp test `range.end() > &max_height`
clamps(h, mh) == IsSome(mh) /\ h + ERA_STEP > Unwrap(mh)

\* batch_range with the clamp forgotten: the range keeps its full length
batch_range_unclamped(h, mh) ==
    [start |-> h, end |-> h + ERA_STEP, stop |-> clamps(h, mh)]

\* `range` and `stop` of the batch opened at height h
batch_range(h, mh) ==
    IF clamps(h, mh)
    THEN [start |-> h, end |-> Unwrap(mh), stop |-> TRUE]
    ELSE [start |-> h, end |-> h + ERA_STEP, stop |-> FALSE]

----------------------------------------------------------------------------
(* HoprEventsDb: the table hopr_raw_logs (indexer/hopr_db.rs) *)

\* the longest topic list a call is made with
MaxTopics == 5

\* the topic columns of the table: topic0 .. topic3
TopicColumns == 4

\* the primary keys (block_number, tx_index, log_index) the calls use
RawLogKeys == {<<10, 1, 2>>, <<10, 1, 3>>}

\* the values the calls pass
Addresses == {0, 1}
TopicLists == {[i \in 1..n |-> i] : n \in 0..MaxTopics}
Payloads == {"abc", "xyz"}
EventNames == {"A", "B"}

\* the arguments of one call of record_raw_log, without the key
RawLogArgs == [address : Addresses, topics : TopicLists, data : Payloads,
               event_name : EventNames]

NoCalls == [k \in RawLogKeys |-> None]

\* `topics.get(idx).map(..)`: the topic at idx (from 0), NULL when there is none
topic_bytes(topics, idx) == IF idx < Len(topics) THEN Some(topics[idx + 1]) ELSE None

\* the row one call writes: ten columns, the key first
raw_log_row(key, a) ==
    [block_number |-> key[1], tx_index |-> key[2], log_index |-> key[3],
     address |-> a.address,
     topic0 |-> topic_bytes(a.topics, 0), topic1 |-> topic_bytes(a.topics, 1),
     topic2 |-> topic_bytes(a.topics, 2), topic3 |-> topic_bytes(a.topics, 3),
     data |-> a.data, event_name |-> a.event_name]

\* the primary key of a row
primary_key(row) == <<row.block_number, row.tx_index, row.log_index>>

\* record_raw_log as INSERT OR IGNORE: a row with the key stays as it is
record_raw_log_ignore(table, key, a) ==
    IF \E r \in table : primary_key(r) = key THEN table
    ELSE table \cup {raw_log_row(key, a)}

\* record_raw_log: INSERT OR REPLACE deletes the row that conflicts on the
\* primary key, then inserts the new row
record_raw_log(table, key, a) ==
    {r \in table : primary_key(r) # key} \cup {raw_log_row(key, a)}

----------------------------------------------------------------------------
(* The execution extensions: the HOPR and the deposit indexer *)

\* the most notifications one run of an indexer receives
MaxNotifications == 3

\* the most logs of one block
MaxLogs == 2

\* the numbers of blocks a chain of a notification holds
ChainLengths == {1, 2}

\* ExExNotification: the three kinds of notification
NotificationKinds == {"ChainCommitted", "ChainReorged", "ChainReverted"}

\* hopr_events.rs: the contracts of the HOPR protocol the indexer names
HoprContracts == {"CHANNEL_CONTRACT_ADDR", "ANNOUNCEMENTS", "NETWORK_REGISTRY",
                  "NODE_SAFE_REGISTRY", "TICKET_PRICE_ORACLE",
                  "WINNING_PROBABILITY_ORACLE"}

\* the addresses a log comes from: the HOPR contracts, the deposit contract
\* and a contract that is neither
LogAddresses == HoprContracts \cup {"DEPOSIT_CONTRACT_ADDR", "other"}

\* hopr.rs 53-60: the signature hashes of the events of the channels contract
ChannelTopics == {"ChannelOpened", "ChannelClosed", "ChannelBalanceIncreased",
                  "ChannelBalanceDecreased", "OutgoingChannelClosureInitiated",
                  "DomainSeparatorUpdated", "LedgerDomainSeparatorUpdated",
                  "TicketRedeemed"}

\* `log.topics().first().copied()`: no topic, the signature of an event of
\* the channels contract, of the announcements contract, of the deposit
\* contract, or of an event no indexer knows
Topic0s == {None, Some("ChannelOpened"), Some("KeyBinding"), Some("DepositEvent"),
            Some("Transfer")}

\* the logs of the receipts
Logs == [address : LogAddresses, topic0 : Topic0s]

\* `topic0 == Some(t)` for one of the signatures of the channels contract
channel_topic(topic0) == topic0 # None /\ Unwrap(topic0) \in ChannelTopics

\* hopr.rs 94-470: whether the body of `for log in &receipt.logs` adds one to
\* block_matches: the branch of the channels contract counts in address-only
\* mode or on a topic of the contract, the branches of the other five
\* contracts count in every case, and the statements after the branches
\* count a log of any other address in address-only mode or on a topic of
\* the channels contract
hopr_matches(log, addr_only) ==
    IF log.address = "CHANNEL_CONTRACT_ADDR"
    THEN addr_only \/ channel_topic(log.topic0)
    ELSE IF log.address \in {"ANNOUNCEMENTS", "NETWORK_REGISTRY", "NODE_SAFE_REGISTRY",
                             "TICKET_PRICE_ORACLE", "WINNING_PROBABILITY_ORACLE"}
    THEN TRUE
    ELSE addr_only \/ channel_topic(log.topic0)

\* deposit.rs 34-45: a log of the deposit contract counts in address-only
\* mode or with the topic of DepositEvent
deposit_matches(log, addr_only) ==
    /\ log.address = "DEPOSIT_CONTRACT_ADDR"
    /\ addr_only \/ log.topic0 = Some("DepositEvent")

\* the test of the indexer that is installed
log_matches(which, log, addr_only) ==
    IF which = "hopr" THEN hopr_matches(log, addr_only)
    ELSE deposit_matches(log, addr_only)

\* acknowledges that takes every notification for a committed chain
acknowledges_any(kind) == TRUE

\* `if let ExExNotification::ChainCommitted { new } = &notification`: the
\* body of the loop runs for a committed chain only
acknowledges(kind) == kind = "ChainCommitted"

\* `new.tip()`: the last block of the chain
tip(chain) == chain.first + chain.len - 1

----------------------------------------------------------------------------
(* The block tuple sequence of one archive: decode and ProcessIter *)

\* the three compressed blobs of a block tuple
Blobs == {"header", "body", "receipts"}

\* what can fail before a block is decoded: the reader, or one of the blobs
DecodeFaults == {"reader"} \cup Blobs

\* what can fail while one tuple is read, decoded and handled
Faults == {"none"} \cup DecodeFaults \cup {"write", "index", "insert"}

\* an item of the reader: an error, or a block tuple of which the blobs in
\* `bad` do not decode
ReaderErr == [ok |-> FALSE]
ReaderOk(tuple, bad) == [ok |-> TRUE, tuple |-> tuple, bad |-> bad]

\* the item the reader yields for a tuple when `fault` happens
reader_item(tuple, fault) ==
    IF fault = "reader" THEN ReaderErr
    ELSE ReaderOk(tuple, IF fault \in Blobs THEN {fault} ELSE {})

\* decode that takes missing receipts for no receipts
decode_lenient(item) ==
    IF ~item.ok THEN [ok |-> FALSE, err |-> "decode"]
    ELSE IF "header" \in item.bad THEN [ok |-> FALSE, err |-> "decode"]
    ELSE IF "body" \in item.bad THEN [ok |-> FALSE, err |-> "decode"]
    ELSE [ok |-> TRUE,
          block |-> [item.tuple EXCEPT !.txs = IF "receipts" \in item.bad THEN 0 ELSE @]]

\* decode(block): `block?`, then header, body and receipts are decoded in
\* this order, each with `?`; the triple is built from all three
decode(item) ==
    IF ~item.ok THEN [ok |-> FALSE, err |-> "decode"]
    ELSE IF "header" \in item.bad THEN [ok |-> FALSE, err |-> "decode"]
    ELSE IF "body" \in item.bad THEN [ok |-> FALSE, err |-> "decode"]
    ELSE IF "receipts" \in item.bad THEN [ok |-> FALSE, err |-> "decode"]
    ELSE [ok |-> TRUE, block |-> item.tuple]

\* `reader.iter().map(decode)`: the tuple at position p, None past the last
inner_next(file, p, fault) ==
    IF p > Len(file) THEN None ELSE Some(decode(reader_item(file[p], fault)))

\* the faults that can be met at position p: past the last tuple nothing is
\* read, decoded or written
FaultsAt(file, p, faults) == IF p > Len(file) THEN {"none"} ELSE faults

\* the outcomes of mark_as_processed that can be met at position p: the hook
\* is not reached while the file has a tuple at p
HookOutcomesAt(file, p) == IF p > Len(file) THEN BOOLEAN ELSE {TRUE}

\* what an item returned by ProcessIter::next is: the end of the sequence,
\* an error, or a block with its number
ItemKind(item) ==
    IF item = None THEN [kind |-> "none", number |-> 0]
    ELSE IF ~Unwrap(item).ok THEN [kind |-> Unwrap(item).err, number |-> 0]
    ELSE [kind |-> "block", number |-> Unwrap(item).block.number]

\* ProcessIter_next that calls the hook before it looks at the inner sequence
ProcessIter_next_eager(file, p, fault, hook_ok) ==
    [item |-> inner_next(file, p, fault), called |-> TRUE]

\* ProcessIter::next: an item of the inner sequence is passed on; when there
\* is none, mark_as_processed is called and its error, if any, is the item.
\* called is whether this poll called the hook.
ProcessIter_next(file, p, fault, hook_ok) ==
    LET item == inner_next(file, p, fault)
    IN  IF item # None THEN [item |-> item, called |-> FALSE]
        ELSE IF hook_ok THEN [item |-> None, called |-> TRUE]
        ELSE [item |-> Some([ok |-> FALSE, err |-> "mark"]), called |-> TRUE]

----------------------------------------------------------------------------
(* process_iter: the loop body for one decoded block *)

\* start_bound read as an excluded bound: `number.saturating_sub(1)`
start_bound_excluded(rg) == IF rg.start = 0 THEN 0 ELSE rg.start - 1

\* `number.saturating_sub(1)` on a block number
saturating_sub(number) == IF number = 0 THEN 0 ELSE number - 1

\* `number.saturating_add(1)`; the numbers here stay far below u64::MAX
saturating_add(number) == number + 1

\* `match block_numbers.start_bound()`: the first value of last_header_number
start_bound(rg) ==
    CASE rg.start_kind = "Included" -> rg.start
      [] rg.start_kind = "Excluded" -> saturating_sub(rg.start)
      [] rg.start_kind = "Unbounded" -> 0

\* `match block_numbers.end_bound()`: `target`, an Option
end_bound(rg) ==
    CASE rg.end_kind = "Included" -> Some(rg.end)
      [] rg.end_kind = "Excluded" -> Some(saturating_add(rg.end))
      [] rg.end_kind = "Unbounded" -> None

\* skips with a strict comparison
skips_strict(number, last) == number < last

\* the skip test `number <= last_header_number`
skips(number, last) == number <= last

\* past_target that lets the block right after the target through
past_target_late(number, target) == number > target + 1

\* the stop test `number > target`
past_target(number, target) == number > target

\* increase_td that assigns instead of adding
increase_td_assign(total_difficulty, difficulty) == difficulty

\* `*total_difficulty += header.difficulty()`
increase_td(total_difficulty, difficulty) == total_difficulty + difficulty

\* collector_insert moved into the loop over the receipts of the block
collector_insert_per_receipt(coll, b) ==
    IF b.txs = 0 THEN coll ELSE Append(coll, <<hash_slow(b), b.number>>)

\* `hash_collector.insert(hash, number)?`
collector_insert(coll, b) == Append(coll, <<hash_slow(b), b.number>>)

\* skip_block that hands the skipped block to the hash collector
skip_block_collected(s, b) ==
    [w |-> s.w, td |-> s.td, last |-> s.last,
     coll |-> Append(s.coll, <<hash_slow(b), b.number>>), outcome |-> "continue"]

\* skip_block with the total difficulty increased before the skip test
skip_block_counted(s, b) ==
    [w |-> s.w, td |-> s.td + b.difficulty, last |-> s.last, coll |-> s.coll,
     outcome |-> "continue"]

\* `continue`: the block is dropped, the loop state is as before
skip_block(s, b) ==
    [w |-> s.w, td |-> s.td, last |-> s.last, coll |-> s.coll, outcome |-> "continue"]

\* s = [w, td, last, coll]: writers' view, total difficulty,
\* last_header_number, hash collector.  Result adds the loop outcome.
\* the outcomes of the loop body that end import: an error returned with
\* `?`, or the panic on a missing body index
Failures == {"ordering", "write", "insert", "panic"}

\* idx_or_panic that takes a missing body index as the first tx number 0
idx_or_zero(idx) ==
    [ok |-> TRUE, first_tx_num |-> IF idx = None THEN 0 ELSE Unwrap(idx).first_tx_num]

\* `if let Ok(Some(idx)) = idx { .. } else { panic!(..) }`: the first tx
\* number of the block, or the panic when the index is absent or its
\* lookup failed
idx_or_panic(idx) ==
    IF idx = None THEN [ok |-> FALSE, first_tx_num |-> 0]
    ELSE [ok |-> TRUE, first_tx_num |-> Unwrap(idx).first_tx_num]

\* header_total that hands the writer the total difficulty as it was before
\* the block
header_total_before(before, after) == before

\* the total difficulty `append_header(&header, *total_difficulty, &hash)`
\* reads: the statement follows `*total_difficulty += ..`, so it is the
\* increased value
header_total(before, after) == after

\* fault is the I/O failure met while the block is handled: "write" fails
\* the body write, "index" the lookup of the body index, "insert" the hash
\* collector, "none" fails nothing.
process_block(s, b, target, fault) ==
    IF skips(b.number, s.last)
    THEN skip_block(s, b)
    ELSE IF target # None /\ past_target(b.number, Unwrap(target))
    THEN [w |-> s.w, td |-> s.td, last |-> s.last, coll |-> s.coll, outcome |-> "break"]
    ELSE
      LET total == increase_td(s.td, b.difficulty)
          h     == append_header(s.w, b, header_total(s.td, total))
          bo    == IF fault = "write" THEN [ok |-> FALSE, w |-> h.w]
                   ELSE append_block_bodies(h.w, b)
          idx   == idx_or_panic(IF fault = "index" THEN None
                                ELSE block_body_indices(bo.w, b.number))
          rc    == append_receipts(bo.w, idx.first_tx_num, b.txs)
          ib    == increment_block(rc.w, b.number)
          fail(w, how) == [w |-> w, td |-> total, last |-> b.number,
                           coll |-> s.coll, outcome |-> how]
      IN  IF ~h.ok THEN fail(h.w, "ordering")
          ELSE IF ~bo.ok THEN fail(bo.w, IF fault = "write" THEN "write" ELSE "ordering")
          ELSE IF ~idx.ok THEN fail(bo.w, "panic")
          ELSE IF ~rc.ok THEN fail(rc.w, "ordering")
          ELSE IF ~ib.ok THEN fail(ib.w, "ordering")
          ELSE IF fault = "insert" THEN fail(ib.w, "insert")
          ELSE [w |-> ib.w, td |-> total, last |-> b.number,
                coll |-> collector_insert(s.coll, b),
                outcome |-> "appended"]

\* after_block that ends the batch on a failure as it does on a break
after_block_lenient(outcome) ==
    IF outcome \in Failures \cup {"break"} THEN "save" ELSE "drain"

\* where import goes after the loop body: `?` returns the error out of
\* import, `break` ends the loop, otherwise the next tuple is polled
after_block(outcome) ==
    IF outcome \in Failures THEN "failed"
    ELSE IF outcome = "break" THEN "save"
    ELSE "drain"

\* after_commit that returns the height from inside the loop once stop is set
after_commit_return(stopped) == IF stopped THEN "done" ELSE "recv"

\* `if stop { break; }`: after the commit of a batch the loop ends, and the
\* terminal pass follows, or the next item is received
after_commit(stopped) == IF stopped THEN "index" ELSE "recv"

\* save_stage_checkpoints that reports success and writes nothing
save_stage_checkpoints_stale(w, h, io_ok) == [ok |-> io_ok, w |-> w]

\* save_stage_checkpoints whose failure is not propagated
save_stage_checkpoints_swallowed(w, h, io_ok) ==
    [ok |-> TRUE, w |-> IF io_ok THEN [w EXCEPT !.checkpoint = h] ELSE w]

\* `save_stage_checkpoints(&provider, from, height, height, height)?`:
\* io_ok is whether the checkpoint write succeeds
save_stage_checkpoints(w, h, io_ok) ==
    IF io_ok
    THEN [ok |-> TRUE, w |-> [w EXCEPT !.checkpoint = h]]
    ELSE [ok |-> FALSE, w |-> w]

----------------------------------------------------------------------------
(* State *)

VARIABLES
    era_files,          \* the archive files the downloader stream yields, in order
    max_height,         \* the caller's ceiling: None or Some(m)
    store,              \* the durable store: what a re-opened store shows
    pending,            \* the store as seen through the writers and the open provider
    downloader,         \* how many files the bridge task has taken from the stream
    task,               \* the bridge task: "run" or "done"
    chan,               \* the mpsc channel: items sent and not yet received
    pc,                 \* where import is
    height,             \* import's `height`
    td,                 \* import's `td`
    from,               \* import's `from` of the open batch
    range,              \* import's `range` of the open batch: [start, end]
    stop,               \* import's `stop`
    meta,               \* index of the archive file of the open batch
    pos,                \* position of the block tuple iterator in that file
    last_header_number, \* process_iter's `last_header_number`
    yielded,            \* the items ProcessIter::next returned for that file
    hash_collector,     \* the pairs (hash, number) collected by this run
    marked,             \* per archive of this invocation, the calls of mark_as_processed
    error,              \* the error import returned with, or "none"
    runs,               \* number of invocations of import so far
    halted,             \* how the previous invocation ended: "no", "between"
    batches,            \* the ranges of the batches opened by this invocation
    sent,               \* every item the bridge task sent in this invocation
    received,           \* every stream item the loop received in this invocation
    store0,             \* the store before the first invocation
    raw,                \* the reader item handed to a call of decode on its own
    decoded,            \* what that call returned: None before it, Some(result) after
    hopr_raw_logs,      \* the rows of the table hopr_raw_logs, by primary key
    last_call,          \* per primary key, the arguments of the last record_raw_log
                        \* and whether it replaced a row
    indexer,            \* the indexer that is installed: "hopr" or "deposit"
    address_only,       \* install's `address_only`
    ipc,                \* where install is
    seen,               \* number of notifications the stream has yielded
    head,               \* the number of the last block of the canonical chain
    notification,       \* install's `notification`: None or Some([kind, first, len])
    block,              \* index in the chain of the block the loop is at
    logs,               \* number of logs of that block the loop has gone through
    last_log,           \* the log the loop went through last: None or Some(log)
    block_matches,      \* install's `block_matches`
    total_in_block,     \* install's `total_in_block`
    events,             \* the tips of the FinishedHeight events sent, in order
    committed           \* the tips of the committed chains the stream yielded

input   == <<era_files, max_height, store0>>
bridge  == <<downloader, task, chan, sent>>
batch   == <<from, range, stop, meta, pos, last_header_number, yielded>>
exex    == <<indexer, address_only, ipc, seen, head, notification, block, logs,
             last_log, block_matches, total_in_block, events, committed>>
aside   == <<raw, decoded, hopr_raw_logs, last_call, exex>>
vars    == <<era_files, max_height, store, pending, downloader, task, chan, pc,
             height, td, from, range, stop, meta, pos, last_header_number,
             yielded, hash_collector, marked, error, runs, halted, batches, sent,
             received, store0, raw, decoded, hopr_raw_logs, last_call, indexer,
             address_only, ipc, seen, head, notification, block, logs, last_log,
             block_matches, total_in_block, events, committed>>

\* no indexer is installed
NoExEx ==
    /\ indexer = "hopr"
    /\ address_only = FALSE
    /\ ipc = "ended"
    /\ seen = 0
    /\ head = 0
    /\ notification = None
    /\ block = 0
    /\ logs = 0
    /\ last_log = None
    /\ block_matches = 0
    /\ total_in_block = 0
    /\ events = <<>>
    /\ committed = <<>>

Running == pc \in {"seed", "recv", "drain", "save", "commit", "index", "index_commit"}

----------------------------------------------------------------------------
(* Initial states: an archive set, a ceiling and a consistent store *)

Init ==
    \E per \in 1..MaxPerFile, nf \in 1..MaxFiles, first \in 0..1,
       gap \in {-1, 0, 1}, ds \in DSeeds, len \in 0..MaxInitLen, mh \in MaxHeights :
        /\ per + gap >= 1
        /\ era_files = [k \in 1..nf |-> EraFile(first + (k - 1) * (per + gap), per, ds)]
        /\ max_height = mh
        /\ store = StoreOf(len, ds)
        /\ pending = StoreOf(len, ds)
        /\ store0 = StoreOf(len, ds)
        /\ downloader = 0
        /\ task = "run"
        /\ chan = <<>>
        /\ pc = "seed"
        /\ height = 0
        /\ td = 0
        /\ from = 0
        /\ range = RangeInclusive(0, 0)
        /\ stop = FALSE
        /\ meta = 0
        /\ pos = 0
        /\ last_header_number = 0
        /\ yielded = <<>>
        /\ hash_collector = <<>>
        /\ marked = [k \in 1..nf |-> 0]
        /\ error = "none"
        /\ runs = 1
        /\ halted = "no"
        /\ batches = <<>>
        /\ sent = <<>>
        /\ received = <<>>
        /\ raw = ReaderErr
        /\ decoded = None
        /\ hopr_raw_logs = {}
        /\ last_call = NoCalls
        /\ NoExEx

----------------------------------------------------------------------------
(* The bridge task: era.rs 74-79 *)

\* `while let Some(file) = downloader.next().await { tx.send(Some(file))?; }`
\* the stream item is the next archive file or a discovery/download error;
\* the stream of one invocation reports one error at most
BridgeSend ==
    /\ Running
    /\ task = "run"
    /\ downloader < Len(era_files)
    /\ downloader' = downloader + 1
    /\ \E file \in {Ok(downloader + 1)} \cup
                   {Err(downloader + 1) : x \in {i \in {0} : NoErrorSent(sent)}} :
        /\ chan' = tx_send(chan, Some(file))
        /\ sent' = Append(sent, Some(file))
    /\ UNCHANGED <<input, aside, store, pending, task, pc, height, td, batch,
                   hash_collector, marked, error, runs, halted, batches, received>>

\* `tx.send(None)` once the stream is exhausted
BridgeEnd ==
    /\ Running
    /\ task = "run"
    /\ downloader = Len(era_files)
    /\ chan' = end_of_stream(chan)
    /\ sent' = Append(sent, None)
    /\ task' = "done"
    /\ UNCHANGED <<input, aside, store, pending, downloader, pc, height, td, batch,
                   hash_collector, marked, error, runs, halted, batches, received>>

----------------------------------------------------------------------------
(* import *)

\* era.rs 85-92: seed height and total difficulty from the store
Seed ==
    /\ pc = "seed"
    /\ LET h == highest_block(store)
           t == ok_or_not_found(header_td_by_number(store, h))
       IN  IF t.ok
           THEN /\ height' = h
                /\ td' = t.td
                /\ pc' = "recv"
                /\ error' = error
           ELSE /\ pc' = "failed"
                /\ error' = "TotalDifficultyNotFound"
                /\ UNCHANGED <<height, td>>
    /\ UNCHANGED <<input, aside, store, pending, bridge, batch, hash_collector,
                   marked, runs, halted, batches, received>>

\* era.rs 94-118 and 320-331: receive the next item.  The sentinel ends the
\* loop; an archive opens its batch; an error item fails at `&meta?`, after
\* `from`, `range` and `stop` were set; a channel closed with nothing left
\* in it makes `rx.recv()?` fail
Recv ==
    /\ pc = "recv"
    /\ recv_ready(chan, task)
    /\ IF chan = <<>>
       THEN /\ pc' = "failed"
            /\ error' = "RecvError"
            /\ UNCHANGED <<chan, batch, batches, received>>
       ELSE /\ chan' = Tail(chan)
            /\ IF Head(chan) = None
               THEN /\ pc' = "index"
                    /\ UNCHANGED <<batch, batches, received, error>>
               ELSE LET r == batch_range(height, max_height)
                        file == Unwrap(Head(chan))
                    IN  /\ from' = height
                        /\ range' = RangeInclusive(r.start, r.end)
                        /\ stop' = r.stop
                        /\ received' = Append(received, file)
                        /\ IF meta_try(file) = "drain"
                           THEN /\ meta' = file.file
                                /\ pos' = 1
                                /\ last_header_number' = start_bound(RangeInclusive(r.start, r.end))
                                /\ yielded' = <<>>
                                /\ batches' = Append(batches, <<r.start, r.end>>)
                                /\ pc' = "drain"
                                /\ error' = error
                           ELSE /\ pc' = meta_try(file)
                                /\ error' = "download"
                                /\ UNCHANGED <<meta, pos, last_header_number,
                                               yielded, batches>>
    /\ UNCHANGED <<input, aside, store, pending, downloader, task, sent, height, td,
                   hash_collector, marked, runs, halted>>

\* era.rs 195-203 and 333-399: one turn of `for block in &mut iter`
Drain ==
    /\ pc = "drain"
    /\ \E fault \in FaultsAt(era_files[meta], pos, Faults),
          hook_ok \in HookOutcomesAt(era_files[meta], pos) :
        LET it == ProcessIter_next(era_files[meta], pos, fault, hook_ok)
        IN  /\ marked' = IF it.called THEN [marked EXCEPT ![meta] = @ + 1] ELSE marked
            /\ pos' = IF it.called THEN pos ELSE pos + 1
            /\ yielded' = Append(yielded, ItemKind(it.item))
            /\ IF it.item = None
               THEN \* the sequence is exhausted: the loop ends
                    /\ height' = last_header_number
                    /\ pc' = "save"
                    /\ UNCHANGED <<pending, td, last_header_number, hash_collector, error>>
               ELSE IF ~Unwrap(it.item).ok
               THEN \* `block?` returns the error of the item
                    /\ pc' = "failed"
                    /\ error' = Unwrap(it.item).err
                    /\ UNCHANGED <<pending, td, last_header_number, hash_collector, height>>
               ELSE LET r == process_block([w |-> pending, td |-> td,
                                            last |-> last_header_number,
                                            coll |-> hash_collector],
                                           Unwrap(it.item).block, end_bound(range), fault)
                    IN  /\ pending' = r.w
                        /\ td' = r.td
                        /\ last_header_number' = r.last
                        /\ hash_collector' = r.coll
                        /\ pc' = after_block(r.outcome)
                        /\ error' = IF r.outcome \in Failures THEN r.outcome ELSE error
                        /\ height' = IF r.outcome = "break" THEN r.last ELSE height
    /\ UNCHANGED <<input, aside, store, bridge, from, range, stop, meta, runs,
                   halted, batches, received>>

\* era.rs 141: save_stage_checkpoints(&provider, from, height, height, height)?
SaveCheckpoint ==
    /\ pc = "save"
    /\ \E io_ok \in BOOLEAN :
        LET r == save_stage_checkpoints(pending, height, io_ok)
        IN  /\ pending' = r.w
            /\ pc' = IF r.ok THEN "commit" ELSE "failed"
            /\ error' = IF r.ok THEN error ELSE "checkpoint"
    /\ UNCHANGED <<input, aside, store, bridge, height, td, batch, hash_collector,
                   marked, runs, halted, batches, received>>

\* era.rs 143-147: UnifiedStorageWriter::commit(provider)?; if stop { break }
Commit ==
    /\ pc = "commit"
    /\ \E ok \in BOOLEAN :
        IF ok
        THEN /\ store' = pending
             /\ pc' = after_commit(stop)
             /\ error' = error
        ELSE /\ pc' = "failed"
             /\ error' = "commit"
             /\ UNCHANGED store
    /\ UNCHANGED <<input, aside, pending, bridge, height, td, batch, hash_collector,
                   marked, runs, halted, batches, received>>

\* era.rs 150-152: a new provider, build_index(&provider, hash_collector)?
BuildIndex ==
    /\ pc = "index"
    /\ pending' = build_index(store, hash_collector)
    /\ pc' = "index_commit"
    /\ UNCHANGED <<input, aside, store, bridge, height, td, batch, hash_collector,
                   marked, error, runs, halted, batches, received>>

\* era.rs 154-156: UnifiedStorageWriter::commit(provider)?; Ok(height)
CommitIndex ==
    /\ pc = "index_commit"
    /\ store' = pending
    /\ pc' = "done"
    /\ UNCHANGED <<input, aside, pending, bridge, height, td, batch, hash_collector,
                   marked, error, runs, halted, batches, received>>

----------------------------------------------------------------------------
(* The environment: a crash of the process, and a new invocation *)

\* the process dies between two batches (a batch that dies half-way leaves
\* the store as a failed batch does): everything not committed is lost
Crash ==
    /\ pc = "recv"
    /\ runs < MaxRuns
    /\ halted' = "between"
    /\ pc' = "crashed"
    /\ pending' = store
    /\ chan' = <<>>
    /\ downloader' = 0
    /\ task' = "done"
    /\ hash_collector' = <<>>
    /\ height' = 0
    /\ td' = 0
    /\ from' = 0
    /\ range' = RangeInclusive(0, 0)
    /\ stop' = FALSE
    /\ meta' = 0
    /\ pos' = 0
    /\ last_header_number' = 0
    /\ yielded' = <<>>
    /\ batches' = <<>>
    /\ sent' = <<>>
    /\ received' = <<>>
    /\ error' = "none"
    /\ marked' = [k \in DOMAIN era_files |-> 0]
    /\ UNCHANGED <<input, aside, store, runs>>

\* import is invoked again over the same archive set and the re-opened store
\* (an invocation that returned an error leaves the store that a crash after
\* its last commit leaves, so the new invocation follows the crash)
Reopen ==
    /\ pc = "crashed"
    /\ runs < MaxRuns
    /\ runs' = runs + 1
    /\ halted' = halted
    /\ pc' = "seed"
    /\ pending' = store
    /\ chan' = <<>>
    /\ downloader' = 0
    /\ task' = "run"
    /\ hash_collector' = <<>>
    /\ height' = 0
    /\ td' = 0
    /\ from' = 0
    /\ range' = RangeInclusive(0, 0)
    /\ stop' = FALSE
    /\ meta' = 0
    /\ pos' = 0
    /\ last_header_number' = 0
    /\ yielded' = <<>>
    /\ batches' = <<>>
    /\ sent' = <<>>
    /\ received' = <<>>
    /\ error' = "none"
    /\ marked' = [k \in DOMAIN era_files |-> 0]
    /\ UNCHANGED <<input, aside, store>>

Next ==
    \/ BridgeSend
    \/ BridgeEnd
    \/ Seed
    \/ Recv
    \/ Drain
    \/ SaveCheckpoint
    \/ Commit
    \/ BuildIndex
    \/ CommitIndex
    \/ Crash
    \/ Reopen

Spec == Init /\ [][Next]_vars


----------------------------------------------------------------------------
(* import over archives of any size compared with ERA_STEP *)

\* archives that together hold a contiguous block sequence starting right
\* above the highest block of a consistent store, each holding fewer blocks
\* than ERA_STEP, as many, or up to MaxExtra more
ContiguousInit ==
    \E per \in (ERA_STEP - 1)..(ERA_STEP + MaxExtra), nf \in 1..(MaxFiles - 1),
       ds \in DSeeds, len \in 1..MaxInitLen, mh \in MaxHeights :
        /\ era_files = [k \in 1..nf |-> EraFile(len + (k - 1) * per, per, ds)]
        /\ max_height = mh
        /\ store = StoreOf(len, ds)
        /\ pending = StoreOf(len, ds)
        /\ store0 = StoreOf(len, ds)
        /\ downloader = 0
        /\ task = "run"
        /\ chan = <<>>
        /\ pc = "seed"
        /\ height = 0
        /\ td = 0
        /\ from = 0
        /\ range = RangeInclusive(0, 0)
        /\ stop = FALSE
        /\ meta = 0
        /\ pos = 0
        /\ last_header_number = 0
        /\ yielded = <<>>
        /\ hash_collector = <<>>
        /\ marked = [k \in 1..nf |-> 0]
        /\ error = "none"
        /\ runs = 1
        /\ halted = "no"
        /\ batches = <<>>
        /\ sent = <<>>
        /\ received = <<>>
        /\ raw = ReaderErr
        /\ decoded = None
        /\ hopr_raw_logs = {}
        /\ last_call = NoCalls
        /\ NoExEx

ContiguousSpec == ContiguousInit /\ [][Next]_vars

\* era.rs 73-79: the bridge runs as a task of the tokio runtime, whose worker
\* threads keep polling a task that can proceed
Producer == BridgeSend \/ BridgeEnd

\* era.rs 85-156: import runs on the thread of its caller, which keeps
\* executing the statement it is at unless the statement waits
Loop == Seed \/ Recv \/ Drain \/ SaveCheckpoint \/ Commit \/ BuildIndex \/ CommitIndex

\* the import over contiguous archives with both threads of control
\* scheduled fairly
FairSpec == ContiguousSpec /\ WF_vars(Producer) /\ WF_vars(Loop)

----------------------------------------------------------------------------
(* ProcessIter on its own: the sequence of one archive, polled by any caller *)

\* a ProcessIter over one archive file, before its first poll
IterInit ==
    \E per \in 0..MaxPerFile, first \in 0..1, ds \in DSeeds :
        /\ era_files = <<EraFile(first, per, ds)>>
        /\ max_height = None
        /\ store = StoreOf(1, ds)
        /\ pending = StoreOf(1, ds)
        /\ store0 = StoreOf(1, ds)
        /\ downloader = 0
        /\ task = "done"
        /\ chan = <<>>
        /\ pc = "iter"
        /\ height = 0
        /\ td = 0
        /\ from = 0
        /\ range = RangeInclusive(0, 0)
        /\ stop = FALSE
        /\ meta = 1
        /\ pos = 1
        /\ last_header_number = 0
        /\ yielded = <<>>
        /\ hash_collector = <<>>
        /\ marked = <<0>>
        /\ error = "none"
        /\ runs = 1
        /\ halted = "no"
        /\ batches = <<>>
        /\ sent = <<>>
        /\ received = <<>>
        /\ raw = ReaderErr
        /\ decoded = None
        /\ hopr_raw_logs = {}
        /\ last_call = NoCalls
        /\ NoExEx

\* one call of ProcessIter::next by the caller: the tuple may fail to decode
\* and the hook may fail; the inner sequence stays exhausted once it is
IterPoll ==
    /\ pc = "iter"
    /\ Len(yielded) < Len(era_files[meta]) + 1 + MaxRepolls
    /\ \E fault \in FaultsAt(era_files[meta], pos, {"none"} \cup DecodeFaults),
          hook_ok \in HookOutcomesAt(era_files[meta], pos) :
        LET it == ProcessIter_next(era_files[meta], pos, fault, hook_ok)
        IN  /\ marked' = IF it.called THEN [marked EXCEPT ![meta] = @ + 1] ELSE marked
            /\ pos' = IF it.called THEN pos ELSE pos + 1
            /\ yielded' = Append(yielded, ItemKind(it.item))
    /\ UNCHANGED <<input, aside, store, pending, bridge, pc, height, td, from, range,
                   stop, meta, last_header_number, hash_collector, error, runs,
                   halted, batches, received>>

IterNext == IterPoll

IterSpec == IterInit /\ [][IterNext]_vars

----------------------------------------------------------------------------
(* decode on its own: one call on any item the reader can yield *)

\* the pipeline before anything ran, with nothing to import
Idle ==
    /\ era_files = <<>>
    /\ max_height = None
    /\ store = StoreOf(1, 1)
    /\ pending = StoreOf(1, 1)
    /\ store0 = StoreOf(1, 1)
    /\ downloader = 0
    /\ task = "done"
    /\ chan = <<>>
    /\ height = 0
    /\ td = 0
    /\ from = 0
    /\ range = RangeInclusive(0, 0)
    /\ stop = FALSE
    /\ meta = 0
    /\ pos = 0
    /\ last_header_number = 0
    /\ yielded = <<>>
    /\ hash_collector = <<>>
    /\ marked = <<>>
    /\ error = "none"
    /\ runs = 1
    /\ halted = "no"
    /\ batches = <<>>
    /\ sent = <<>>
    /\ received = <<>>

\* a reader item: an error, or any block tuple with any of its blobs corrupt
DecodeInit ==
    /\ Idle
    /\ pc = "decode"
    /\ \E n \in 0..(MaxFiles * MaxPerFile), bad \in SUBSET Blobs, ok \in BOOLEAN,
          ds \in DSeeds :
            raw = IF ok THEN ReaderOk(Block(n, ds), bad) ELSE ReaderErr
    /\ decoded = None
    /\ hopr_raw_logs = {}
    /\ last_call = NoCalls
    /\ NoExEx

\* the call decode(raw)
DecodeCall ==
    /\ pc = "decode"
    /\ decoded = None
    /\ decoded' = Some(decode(raw))
    /\ UNCHANGED <<input, store, pending, bridge, pc, height, td, batch,
                   hash_collector, marked, error, runs, halted, batches,
                   received, raw, hopr_raw_logs, last_call, exex>>

DecodeNext == DecodeCall

DecodeSpec == DecodeInit /\ [][DecodeNext]_vars

----------------------------------------------------------------------------
(* process_iter on its own: one archive, any block_numbers *)

\* a call of process_iter on the blocks of one archive, with any kind of
\* start and end bound, on a consistent store
RangeInit ==
    \E per \in 1..MaxPerFile, first \in 0..1, len \in 1..MaxInitLen, ds \in DSeeds,
       sk \in BoundKinds, ek \in BoundKinds, a \in 0..MaxInitLen,
       b \in 0..(MaxPerFile + 1) :
        /\ era_files = <<EraFile(first, per, ds)>>
        /\ max_height = None
        /\ store = StoreOf(len, ds)
        /\ pending = StoreOf(len, ds)
        /\ store0 = StoreOf(len, ds)
        /\ downloader = 0
        /\ task = "done"
        /\ chan = <<>>
        /\ pc = "drain"
        /\ height = 0
        /\ td = SumDifficulty(len - 1, ds)
        /\ from = 0
        /\ range = RangeBounds(sk, a, ek, b)
        /\ stop = FALSE
        /\ meta = 1
        /\ pos = 1
        /\ last_header_number = start_bound(range)
        /\ yielded = <<>>
        /\ hash_collector = <<>>
        /\ marked = <<0>>
        /\ error = "none"
        /\ runs = 1
        /\ halted = "no"
        /\ batches = <<>>
        /\ sent = <<>>
        /\ received = <<>>
        /\ raw = ReaderErr
        /\ decoded = None
        /\ hopr_raw_logs = {}
        /\ last_call = NoCalls
        /\ NoExEx

RangeNext == Drain

RangeSpec == RangeInit /\ [][RangeNext]_vars

----------------------------------------------------------------------------
(* HoprEventsDb on its own: any sequence of record_raw_log calls *)

\* an opened database: the schema exists, the table is empty
HoprInit ==
    /\ Idle
    /\ pc = "hopr"
    /\ raw = ReaderErr
    /\ decoded = None
    /\ hopr_raw_logs = {}
    /\ last_call = NoCalls
    /\ NoExEx

\* one call of record_raw_log that the database executes
RecordRawLog ==
    /\ pc = "hopr"
    /\ \E key \in RawLogKeys, a \in RawLogArgs :
        /\ hopr_raw_logs' = record_raw_log(hopr_raw_logs, key, a)
        /\ last_call' = [last_call EXCEPT ![key] =
                            Some([args |-> a, replaced |-> last_call[key] # None])]
    /\ UNCHANGED <<input, store, pending, bridge, pc, height, td, batch,
                   hash_collector, marked, error, runs, halted, batches,
                   received, raw, decoded, exex>>

HoprNext == RecordRawLog

HoprSpec == HoprInit /\ [][HoprNext]_vars

----------------------------------------------------------------------------
(* The indexers on their own: any stream of notifications *)

\* the variables of the import, of decode and of the table
rest == <<input, store, pending, bridge, pc, height, td, batch, hash_collector,
          marked, error, runs, halted, batches, received, raw, decoded,
          hopr_raw_logs, last_call>>

\* hopr.rs 82-83, deposit.rs 21-23: one of the two indexers is installed,
\* with or without its address-only toggle, on a chain of two blocks
ExExInit ==
    /\ Idle
    /\ pc = "exex"
    /\ raw = ReaderErr
    /\ decoded = None
    /\ hopr_raw_logs = {}
    /\ last_call = NoCalls
    /\ indexer \in {"hopr", "deposit"}
    /\ address_only \in BOOLEAN
    /\ ipc = "next"
    /\ seen = 0
    /\ head = 2
    /\ notification = None
    /\ block = 0
    /\ logs = 0
    /\ last_log = None
    /\ block_matches = 0
    /\ total_in_block = 0
    /\ events = <<>>
    /\ committed = <<>>

\* hopr.rs 85-87, deposit.rs 25-27: `ctx.notifications.try_next().await?`
\* yields a notification: a committed chain extends the canonical chain, a
\* reverted chain is taken off its end, a reorged chain replaces its end;
\* the body of the loop runs for a committed chain only
TryNext ==
    /\ ipc = "next"
    /\ seen < MaxNotifications
    /\ \E kind \in NotificationKinds, len \in ChainLengths :
        /\ kind = "ChainCommitted" \/ len <= head
        /\ LET first == IF kind = "ChainCommitted" THEN head + 1 ELSE head - len + 1
               chain == [kind |-> kind, first |-> first, len |-> len]
           IN  /\ notification' = Some(chain)
               /\ head' = IF kind = "ChainReverted" THEN head - len ELSE tip(chain)
               /\ committed' = IF kind = "ChainCommitted"
                               THEN Append(committed, tip(chain)) ELSE committed
               /\ IF acknowledges(kind)
                  THEN /\ ipc' = "scan"
                       /\ block' = 1
                       /\ total_in_block' = 0
                  ELSE /\ ipc' = "next"
                       /\ UNCHANGED <<block, total_in_block>>
    /\ seen' = seen + 1
    /\ logs' = 0
    /\ last_log' = None
    /\ block_matches' = 0
    /\ UNCHANGED <<rest, indexer, address_only, events>>

\* hopr.rs 85, 481, deposit.rs 25, 56: the stream ends and install returns
\* Ok, or the stream yields an error and install returns it
StreamEnd ==
    /\ ipc = "next"
    /\ \E ok \in BOOLEAN : ipc' = IF ok THEN "ended" ELSE "failed"
    /\ UNCHANGED <<rest, indexer, address_only, seen, head, notification, block, logs,
                   last_log, block_matches, total_in_block, events, committed>>

\* hopr.rs 93-470, deposit.rs 33-45: the body of `for log in &receipt.logs`
\* on the next log of the block
ScanLog ==
    /\ ipc = "scan"
    /\ logs < MaxLogs
    /\ \E log \in Logs :
        /\ last_log' = Some(log)
        /\ block_matches' = IF log_matches(indexer, log, address_only)
                            THEN block_matches + 1 ELSE block_matches
    /\ logs' = logs + 1
    /\ UNCHANGED <<rest, indexer, address_only, ipc, seen, head, notification, block,
                   total_in_block, events, committed>>

\* hopr.rs 472-476, deposit.rs 47-51: the block has no further log: its
\* matches join the total and the loop goes to the next block of the chain,
\* or leaves the chain after its last block
EndBlock ==
    /\ ipc = "scan"
    /\ total_in_block' = IF block_matches > 0 THEN total_in_block + block_matches
                         ELSE total_in_block
    /\ IF block < Unwrap(notification).len
       THEN /\ block' = block + 1
            /\ UNCHANGED ipc
       ELSE /\ ipc' = "send"
            /\ UNCHANGED block
    /\ logs' = 0
    /\ last_log' = None
    /\ block_matches' = 0
    /\ UNCHANGED <<rest, indexer, address_only, seen, head, notification, events,
                   committed>>

\* hopr.rs 478, deposit.rs 53:
\* `ctx.events.send(ExExEvent::FinishedHeight(new.tip().num_hash()))?`: the
\* event joins the events sent, or the send fails and install returns the
\* error
Send ==
    /\ ipc = "send"
    /\ \E ok \in BOOLEAN :
        IF ok
        THEN /\ events' = Append(events, tip(Unwrap(notification)))
             /\ ipc' = "next"
        ELSE /\ ipc' = "failed"
             /\ UNCHANGED events
    /\ UNCHANGED <<rest, indexer, address_only, seen, head, notification, block, logs,
                   last_log, block_matches, total_in_block, committed>>

ExExNext ==
    \/ TryNext
    \/ StreamEnd
    \/ ScanLog
    \/ EndBlock
    \/ Send

ExExSpec == ExExInit /\ [][ExExNext]_vars

----------------------------------------------------------------------------
(* import as a function: one uninterrupted invocation without I/O failure,  *)
(* folded from the same per-block and per-batch operators as the actions   *)

RECURSIVE process_iter(_, _, _, _)
\* era.rs 333-426: the loop over the tuples of `file` from position p
process_iter(s, file, p, target) ==
    IF p > Len(file) THEN s
    ELSE LET r == process_block(s, file[p], target, "none")
         IN  IF r.outcome \in Failures \cup {"break"} THEN r
             ELSE process_iter(r, file, p + 1, target)

RECURSIVE import_loop(_, _, _, _)
\* era.rs 94-148: the batch loop from the k-th archive file on
import_loop(s, files, k, mh) ==
    IF k > Len(files) THEN s
    ELSE LET br == batch_range(s.last, mh)
             rg == RangeInclusive(br.start, br.end)
             r  == process_iter([s EXCEPT !.last = start_bound(rg)], files[k], 1,
                                end_bound(rg))
             c  == [r EXCEPT !.w.checkpoint = r.last]
         IN  IF r.outcome \in Failures THEN r
             ELSE IF br.stop THEN c
             ELSE import_loop(c, files, k + 1, mh)

\* era.rs 85-156: the final height, total difficulty and store of import
import(s0, files, mh) ==
    LET h == highest_block(s0)
        t == header_td_by_number(s0, h)
        r == import_loop([w |-> s0, td |-> Unwrap(t), last |-> h,
                          coll |-> <<>>, outcome |-> "continue"], files, 1, mh)
    IN  IF t = None THEN [outcome |-> "error"]
        ELSE IF r.outcome \in Failures THEN [outcome |-> "error"]
        ELSE [outcome |-> "ok", height |-> r.last, td |-> r.td,
              store |-> build_index(r.w, r.coll)]

\* the state of the loop with the number of items it took from the channel
taken(r, outcome, last, i) ==
    [w |-> r.w, td |-> r.td, last |-> last, coll |-> r.coll,
     outcome |-> outcome, used |-> i]

RECURSIVE import_stream(_, _, _, _, _)
\* era.rs 94-148: the batch loop over the items of the channel from the
\* i-th on: rx.recv() takes them in order and waits when there is none
import_stream(s, files, items, i, mh) ==
    IF i > Len(items) THEN taken(s, "waiting", s.last, i - 1)
    ELSE IF items[i] = None THEN taken(s, "ok", s.last, i)
    ELSE IF meta_try(Unwrap(items[i])) # "drain"
    THEN taken(s, "download", s.last, i)
    ELSE LET br == batch_range(s.last, mh)
             rg == RangeInclusive(br.start, br.end)
             r  == process_iter([s EXCEPT !.last = start_bound(rg)],
                                files[Unwrap(items[i]).file], 1, end_bound(rg))
             c  == [r EXCEPT !.w.checkpoint = r.last]
         IN  IF r.outcome \in Failures THEN taken(r, r.outcome, s.last, i)
             ELSE IF br.stop THEN taken(c, "ok", c.last, i)
             ELSE import_stream(c, files, items, i + 1, mh)

\* era.rs 85-156: what import makes of the items of the channel: the
\* outcome, the height, the total difficulty, the collector and the store
\* as the writers see it
import_of(s0, files, items, mh) ==
    LET h == highest_block(s0)
        t == ok_or_not_found(header_td_by_number(s0, h))
        seed == [w |-> s0, td |-> t.td, last |-> h, coll |-> <<>>,
                 outcome |-> "continue"]
    IN  IF ~t.ok THEN taken(seed, "TotalDifficultyNotFound", 0, 0)
        ELSE import_stream(seed, files, items, 1, mh)

\* the result of the uninterrupted invocation over this archive set
Uninterrupted == import(store0, era_files, max_height)

\* an invocation that ran alone from the first store ends as the function says
ImportAgrees ==
    (pc = "done" /\ runs = 1) =>
        /\ Uninterrupted.outcome = "ok"
        /\ height = Uninterrupted.height
        /\ td = Uninterrupted.td
        /\ store = Uninterrupted.store

----------------------------------------------------------------------------
(* C1 *)

\* C1: idempotent resume: when an invocation is stopped by a crash between
\* two batches and import runs again over the same archive set, the second
\* invocation ends with the height, the total difficulty and the hash index
\* of the uninterrupted invocation.
IdempotentResume ==
    (pc = "done" /\ runs = 2 /\ halted = "between"
        /\ Uninterrupted.outcome = "ok") =>
        /\ height = Uninterrupted.height
        /\ td = Uninterrupted.td
        /\ store.index = Uninterrupted.store.index

----------------------------------------------------------------------------
(* C2 *)

\* what a re-opened store shows of the segments and of the checkpoint
DurableAligned(s) ==
    /\ Len(s.bodies) = Len(s.headers)
    /\ s.receipts_block = Len(s.headers)
    /\ s.checkpoint = highest_block(s)

\* C2: atomic commit: in every durable state the segment data of a batch is
\* visible exactly when its checkpoint is (headers, bodies, receipts and the
\* checkpoint all end at the same block), and while a batch is open, or
\* after its checkpoint save or commit failed, nothing appended in that
\* batch is visible in the re-opened store.
AtomicCommit ==
    /\ DurableAligned(store)
    /\ (pc \in {"drain", "save", "commit"}
            \/ (pc = "failed" /\ error \in {"ordering", "checkpoint", "commit"})) =>
        /\ highest_block(store) = from
        /\ store.checkpoint = from

\* a checkpoint save failed in a batch that had appended blocks
AtomicCommitWitness ==
    /\ pc = "failed"
    /\ error = "checkpoint"
    /\ Len(pending.headers) > Len(store.headers)
    /\ Len(pending.receipts) > Len(store.receipts)

----------------------------------------------------------------------------
(* C3 *)

\* C3: monotonic height: within an invocation of import no step lowers
\* height, and every batch that completes leaves height at or above the
\* height it was opened at, also when max_height is below that height.
MonotonicHeight ==
    [][ /\ (pc' \notin {"crashed", "seed"}) => height' >= height
        /\ (pc' \in {"save", "commit"}) => height' >= from' ]_vars

\* a batch completed although max_height was below the height it started at
MonotonicHeightWitness ==
    /\ pc = "commit"
    /\ IsSome(max_height)
    /\ Unwrap(max_height) < from
    /\ pos > 1
    /\ height = from

----------------------------------------------------------------------------
(* C4 *)

RECURSIVE SumStored(_, _)
\* the sum of the difficulty of the first n stored headers
SumStored(headers, n) ==
    IF n = 0 THEN 0 ELSE headers[n].difficulty + SumStored(headers, n - 1)

\* C4: total difficulty accumulation: at every batch boundary the running
\* total difficulty is the sum of difficulty over the stored blocks
\* [0, height], i.e. the value found in the store at the start plus the
\* difficulty of every block appended since.
TotalDifficultyAccumulates ==
    (pc \in {"recv", "save", "commit", "index", "index_commit", "done"}) =>
        /\ Len(pending.headers) = height + 1
        /\ td = SumStored(pending.headers, height + 1)
        /\ td = pending.headers[height + 1].td

\* an invocation ended after it appended at least three blocks with a
\* non-zero difficulty sum to a store that was not empty
TotalDifficultyWitness ==
    /\ pc = "done"
    /\ runs = 1
    /\ height >= highest_block(store0) + 3
    /\ td > store0.headers[Len(store0.headers)].td
    /\ store0.headers[Len(store0.headers)].td > 0

----------------------------------------------------------------------------
(* C5 *)

\* the height this invocation was seeded with
SeededHeight == IF batches = <<>> THEN height ELSE batches[1][1]

\* C5: hash index completeness: when an invocation ends, the collector
\* holds exactly one pair per block appended by the invocation, each pair
\* maps the hash recorded for a block to that block's number, no hash is
\* there twice, and the hash index holds exactly these pairs for the blocks
\* above the seeded height; after an invocation that ran alone, from a
\* store that was indexed, the index has one entry per stored block.
HashIndexComplete ==
    (pc = "done") =>
        LET collected == {hash_collector[i] : i \in DOMAIN hash_collector}
        IN  /\ Len(hash_collector) = height - SeededHeight
            /\ Cardinality(collected) = Len(hash_collector)
            /\ collected = {<<store.headers[n + 1].hash, n>> :
                                n \in (SeededHeight + 1)..height}
            /\ \A e \in collected, f \in collected : e[1] = f[1] => e = f
            /\ {e \in store.index : e[2] > SeededHeight} = collected
            /\ (runs = 1) =>
                /\ Cardinality(store.index) = Len(store.headers)
                /\ store.index = {<<store.headers[n + 1].hash, n>> :
                                      n \in 0..height}

\* an invocation over several batches ended with five or more blocks indexed
HashIndexWitness ==
    /\ pc = "done"
    /\ Len(batches) >= 2
    /\ Len(hash_collector) >= 5
    /\ Cardinality(store.index) = Len(store.headers)

----------------------------------------------------------------------------
(* C6 *)

\* the batch ranges [0,4], [4,8], [8,10]
ThreeBatches == <<<<0, 4>>, <<4, 8>>, <<8, 10>>>>

\* import runs alone with max_height 10 on a store that holds block 0 only
CeilingTenFromZero ==
    /\ max_height = Some(10)
    /\ Len(store0.headers) = 1
    /\ runs = 1

\* C6 as stated: with STEP = 4, max_height 10 and starting height 0, an
\* invocation that ends at height 10 has performed exactly the three
\* batches [0,4], [4,8], [8,10].
BoundedBatchAnyArchive ==
    (CeilingTenFromZero /\ pc = "done" /\ height = 10) => batches = ThreeBatches

\* the errors that come from the environment and not from the archive set
EnvErrors == {"download", "decode", "write", "panic", "insert", "mark",
              "checkpoint", "commit"}

\* every archive file holds exactly the next STEP blocks: file k holds
\* the blocks 4(k-1)+1 .. 4k, and there are at least three files
FilesFillTheirRange ==
    /\ Len(era_files) >= 3
    /\ \A k \in DOMAIN era_files :
        /\ Len(era_files[k]) = ERA_STEP
        /\ \A i \in 1..ERA_STEP :
            era_files[k][i].number = ERA_STEP * (k - 1) + i

\* C6 amended: when moreover every archive file holds exactly the next STEP
\* blocks above the current height, the batches opened are [0,4], [4,8],
\* [8,10] in this order, the third one is clamped and ends the loop at
\* height 10, and the only errors possible are failures of the environment
\* (download, decode, write, body index, hook, checkpoint, commit), never
\* an ordering error.
BoundedBatchFullFiles ==
    (CeilingTenFromZero /\ FilesFillTheirRange) =>
        /\ Len(batches) <= 3
        /\ \A i \in DOMAIN batches : batches[i] = ThreeBatches[i]
        /\ (pc \in {"index", "index_commit", "done"}) =>
            /\ batches = ThreeBatches
            /\ stop
            /\ height = 10
        /\ (pc = "recv") => Len(batches) < 3
        /\ (pc = "failed") => error \in EnvErrors

\* the run of the amended claim has ended
BoundedBatchWitness ==
    /\ CeilingTenFromZero
    /\ FilesFillTheirRange
    /\ pc = "done"
    /\ batches = ThreeBatches

----------------------------------------------------------------------------
(* C7 *)

\* max_height lies inside [from, from + STEP], both ends included
CeilingInsideRange ==
    /\ IsSome(max_height)
    /\ from <= Unwrap(max_height)
    /\ Unwrap(max_height) <= from + ERA_STEP

\* C7: clamp and stop: whenever max_height lies inside the range
\* [height, height + STEP] of a batch, both ends included, the range of the
\* batch ends at max_height and no further archive is received and
\* processed after that batch.
ClampAndStop ==
    [][ /\ (pc = "drain" /\ CeilingInsideRange) => range.end = Unwrap(max_height)
        /\ (pc = "recv" /\ batches # <<>> /\ CeilingInsideRange) => pc' # "drain"
      ]_vars

----------------------------------------------------------------------------
(* C8 *)

\* the highest block number found in the store before the first invocation
InitialHeight == highest_block(store0)

\* C8: height ceiling: with max_height = Some(m) no block above m is ever
\* appended to the headers, bodies or receipts segment or inserted into the
\* hash collector, and once the loop has ended at the ceiling, every block
\* appended by the last batch is committed together with its checkpoint.
HeightCeiling ==
    IsSome(max_height) =>
        LET m == Unwrap(max_height)
        IN  /\ \A i \in DOMAIN pending.headers :
                pending.headers[i].number > InitialHeight
                    => pending.headers[i].number <= m
            /\ Len(pending.bodies) > InitialHeight + 1 => Len(pending.bodies) <= m + 1
            /\ pending.receipts_block > InitialHeight + 1
                    => pending.receipts_block <= m + 1
            /\ \A i \in DOMAIN hash_collector : hash_collector[i][2] <= m
            /\ (pc \in {"index", "index_commit", "done"} /\ stop) =>
                /\ store.headers = pending.headers
                /\ store.bodies = pending.bodies
                /\ store.receipts = pending.receipts
                /\ Len(store.headers) = height + 1
                /\ store.checkpoint = height

\* an invocation ended at the ceiling m, below blocks the archives hold
HeightCeilingWitness ==
    /\ pc = "done"
    /\ stop
    /\ IsSome(max_height)
    /\ height = Unwrap(max_height)
    /\ height > InitialHeight
    /\ \E i \in DOMAIN era_files[meta] :
        era_files[meta][i].number = Unwrap(max_height) + 1

----------------------------------------------------------------------------
(* C9 and C10 *)

\* this step is a turn of the loop of process_iter on the tuple at pos,
\* which decoded to a block
TakesBlock ==
    /\ pc = "drain"
    /\ pos <= Len(era_files[meta])
    /\ pos' = pos + 1
    /\ ~(pc' = "failed" /\ error' = "decode")

\* the number of the block that turn is about
BlockNumber == era_files[meta][pos].number

\* C9: skip at block granularity: a turn of the loop on a block whose
\* number is at or below last_header_number (the starting height of the
\* range, advanced by each appended block) appends no header, body or
\* receipt, leaves the total difficulty and the hash collector as they
\* were, and goes on with the next tuple.
SkipWholesale ==
    [][ (TakesBlock /\ BlockNumber <= last_header_number) =>
            /\ UNCHANGED <<pending, td, hash_collector, last_header_number,
                           height, store>>
            /\ pc' = "drain"
      ]_vars

\* a block at or below the starting height of the range has been passed
\* over, with nothing staged
SkipWitness ==
    /\ pc = "drain"
    /\ pos >= 2
    /\ era_files[meta][pos - 1].number <= range.start
    /\ era_files[meta][pos - 1].difficulty > 0
    /\ pending = store

\* the next expected key of the headers segment writer
HeaderNextKey == Len(pending.headers)

\* C10 as stated: presenting a block whose number is below the next
\* expected key of the header writer fails with an ordering error and
\* leaves the writers' state unchanged.
BelowNextKeyFails ==
    [][ (TakesBlock /\ BlockNumber < HeaderNextKey) =>
            /\ pc' = "failed"
            /\ error' = "ordering"
            /\ pending' = pending
      ]_vars

\* C10 amended: a block whose number is below the next expected key of the
\* header writer leaves the writers' state unchanged and is never appended
\* out of order, but process_iter skips it without an error; a block whose
\* number is above the next expected key and inside the range fails with
\* an ordering error and leaves the writers' state unchanged; a block is
\* appended only when its number is the next expected key.
SegmentOrdering ==
    [][ TakesBlock =>
            /\ (BlockNumber < HeaderNextKey) =>
                    /\ pending' = pending
                    /\ pc' = "drain"
                    /\ error' = "none"
            /\ (BlockNumber > HeaderNextKey /\ BlockNumber <= range.end) =>
                    /\ pending' = pending
                    /\ pc' = "failed"
                    /\ error' = "ordering"
            /\ (pending' # pending) =>
                    /\ BlockNumber = HeaderNextKey
                    /\ Len(pending'.headers) = HeaderNextKey + 1
                    /\ pending'.headers[HeaderNextKey + 1].number = BlockNumber
      ]_vars

\* a block below the next key was skipped in the first batch and a block
\* above the next key then failed in a later batch
SegmentOrderingWitness ==
    /\ pc = "failed"
    /\ error = "ordering"
    /\ runs = 1
    /\ meta >= 2
    /\ era_files[1][1].number <= InitialHeight
    /\ era_files[meta][pos - 1].number > Len(pending.headers)

----------------------------------------------------------------------------
(* C11 *)

\* the errors import can return with while a batch is open
BatchErrors == {"decode", "ordering", "write", "insert", "mark", "panic",
                "checkpoint", "commit"}

\* the blocks the open batch has appended so far are all in the collector
BatchCollected(w) ==
    \A n \in (from + 1)..highest_block(w) :
        \E i \in DOMAIN hash_collector : hash_collector[i][2] = n

\* C11: abort without commit: a step of an open batch that leaves a header
\* without its body, or an appended block without its hash collector entry,
\* ends import; when import ends while a batch is open it returns one of
\* the batch errors, nothing of that batch is committed and the durable
\* store and its checkpoint stay at the height the batch was opened at;
\* the durable store changes only by a commit of an invocation without
\* error, and the commit of a batch publishes complete blocks only.
AbortWithoutCommit ==
    [][ /\ (pc = "drain" /\ Len(pending'.headers) > Len(pending'.bodies)) =>
                (pc' = "failed" /\ error' = "write")
        /\ (pc = "drain" /\ ~BatchCollected(pending)') =>
                (pc' = "failed" /\ error' \in {"write", "panic", "insert"})
        /\ (pc \in {"drain", "save", "commit"} /\ pc' = "failed") =>
                /\ error' \in BatchErrors
                /\ store' = store
                /\ highest_block(store') = from
                /\ store'.checkpoint = from
        /\ (store' # store) =>
                /\ pc \in {"commit", "index_commit"}
                /\ error = "none"
                /\ store' = pending
                /\ (pc = "commit") =>
                        (DurableAligned(pending) /\ BatchCollected(pending))
      ]_vars

\* the hash collector failed on a block of the second batch, after other
\* blocks of that batch had been appended
AbortWithoutCommitWitness ==
    /\ pc = "failed"
    /\ error = "insert"
    /\ Len(batches) >= 2
    /\ Len(pending.headers) > Len(store.headers) + 1
    /\ highest_block(store) = from
    /\ from > InitialHeight

----------------------------------------------------------------------------
(* C12 *)

\* C12: checkpoint monotonicity: over every run, re-runs after a crash
\* included, no step lowers the checkpoint of the durable store; the
\* checkpoint a batch saves is the height after that batch, which is the
\* highest block the batch has staged and is not below the committed
\* checkpoint; and the durable checkpoint changes only by the successful
\* commit that publishes the segment data staged with it.
CheckpointMonotone ==
    [][ /\ store'.checkpoint >= store.checkpoint
        /\ (pc = "save" /\ pc' = "commit") =>
                /\ pending'.checkpoint = height
                /\ pending'.checkpoint = highest_block(pending')
                /\ pending'.checkpoint >= store.checkpoint
        /\ (store'.checkpoint # store.checkpoint) =>
                /\ pc = "commit"
                /\ store' = pending
                /\ store'.checkpoint = height
                /\ DurableAligned(store')
      ]_vars

\* a second invocation, seeded above the height of the first store, has
\* committed a batch with a higher checkpoint
CheckpointMonotoneWitness ==
    /\ runs = 2
    /\ pc \in {"recv", "index"}
    /\ Len(batches) = 2
    /\ batches[1][1] > InitialHeight
    /\ height > from
    /\ store.checkpoint = height

----------------------------------------------------------------------------
(* C13 *)

\* the sequence has reported its exhaustion: it returned None or the error
\* of the hook
Exhausted == \E i \in DOMAIN yielded : yielded[i].kind \in {"none", "mark"}

\* C13 as stated: however often the block tuple sequence of an archive is
\* polled, the mark-processed hook is called exactly once when the sequence
\* is exhausted and not before, and the error of a failed hook is the last
\* item the sequence yields.
MarkedExactlyOnce ==
    /\ marked[meta] = IF Exhausted THEN 1 ELSE 0
    /\ \A i \in DOMAIN yielded : yielded[i].kind = "mark" => i = Len(yielded)

\* inside import the sequence of a batch is polled until its first None or
\* error and not again: there the hook of an archive is called once at most,
\* and only by the poll that found the sequence exhausted
MarkedOncePerBatch ==
    \A k \in DOMAIN marked :
        /\ marked[k] <= 1
        /\ (marked[k] = 1 /\ k = meta) => Exhausted

----------------------------------------------------------------------------
(* C14 *)

\* the last item the sequence of the open batch returned
LastYielded == yielded[Len(yielded)]

\* every tuple of the archive of the open batch has been yielded as its
\* block, in file order, and the loop has skipped or appended each of them
AllHandled ==
    /\ Len(yielded) = Len(era_files[meta])
    /\ \A i \in DOMAIN yielded :
        /\ yielded[i] = [kind |-> "block", number |-> era_files[meta][i].number]
        /\ era_files[meta][i].number <= last_header_number

\* C14: mark after full iteration: within an invocation the hook of an
\* archive is called only by the poll that follows the last tuple, after
\* every tuple of the archive was yielded and handled by the loop, and for
\* no other archive than the one of the open batch; a batch whose loop ends
\* on a tuple (the range end is passed, the tuple does not decode or the
\* handling of its block fails) leaves its archive unmarked, and it stays
\* unmarked while the batch is saved and committed.
MarkAfterFullIteration ==
    [][ /\ (marked' # marked /\ pc' \notin {"crashed", "seed"}) =>
                /\ pc = "drain"
                /\ AllHandled
                /\ marked[meta] = 0
                /\ marked' = [marked EXCEPT ![meta] = 1]
        /\ (pc = "drain" /\ pc' \in {"save", "failed"}
                /\ LastYielded'.kind \in {"block", "decode"}) =>
                marked'[meta] = 0
        /\ (pc \in {"save", "commit"} /\ LastYielded.kind = "block") =>
                marked'[meta] = 0
      ]_vars

\* the first archive was iterated to its end and marked, the second one
\* stopped at the range end and its batch was committed unmarked
MarkAfterFullIterationWitness ==
    /\ pc = "index"
    /\ meta = 2
    /\ marked[1] = 1
    /\ marked[2] = 0
    /\ LastYielded.kind = "block"
    /\ height > from

----------------------------------------------------------------------------
(* C15 *)

\* the items the loop has taken from the channel, as they were sent
Delivered == [i \in DOMAIN received |-> Some(received[i])]

\* C15: fetch order preservation: under every interleaving of the bridge
\* task and the loop, the i-th item the loop receives is the i-th item of
\* the downloader stream, and the items sent are exactly the items received
\* followed by the items still in the channel, in the order of the stream:
\* the bridge drops, duplicates and reorders nothing.
FetchOrder ==
    /\ \A i \in DOMAIN received : received[i].file = i
    /\ \A j \in DOMAIN chan :
            chan[j] # None => Unwrap(chan[j]).file = Len(received) + j
    /\ \/ sent = Delivered \o chan
       \/ chan = <<>> /\ sent = Append(Delivered, None)
    /\ Len(sent) = downloader + (IF task = "done" /\ sent # <<>> THEN 1 ELSE 0)

\* the bridge ran ahead: the loop works on the second archive while the
\* third one and the sentinel wait in the channel
FetchOrderWitness ==
    /\ pc = "drain"
    /\ Len(received) = 2
    /\ meta = 2
    /\ Len(chan) = 2
    /\ chan[1] = Some(Ok(3))
    /\ chan[2] = None

----------------------------------------------------------------------------
(* C16 *)

\* the archives and error items sent and not yet received
InFlight == Cardinality({j \in DOMAIN chan : chan[j] # None})

\* a capacity the channel would need to hold the bridge back: the channel
\* of `mpsc::channel()` has none, so the claim is put to the largest
\* capacity a stream of MaxFiles items can exceed
Capacity == MaxFiles - 1

\* C16 as stated: backpressure: the channel is bounded: the number of
\* archives sent and not yet received never exceeds the channel capacity
\* (the producer takes no send step while the channel is full).
Backpressure == InFlight <= Capacity

----------------------------------------------------------------------------
(* C17 *)

\* the sentinel is the next item of the channel
SentinelNext == chan # <<>> /\ Head(chan) = None

----------------------------------------------------------------------------
(* C18 *)

\* the item is an error of discovery or download
IsErrorItem(item) == item # None /\ ~Unwrap(item).ok

\* the item is an archive
IsArchive(item) == item # None /\ Unwrap(item).ok

\* C18 as stated: a discovery or download failure is the terminal item of
\* the channel: after the bridge has sent an error item it sends no further
\* archive.
ErrorItemTerminal ==
    \A i \in DOMAIN sent : \A j \in DOMAIN sent :
        (i < j /\ IsErrorItem(sent[i])) => ~IsArchive(sent[j])

----------------------------------------------------------------------------
(* C19 *)

\* the loop is about to receive an error item
ErrorItemNext == pc = "recv" /\ chan # <<>> /\ IsErrorItem(Head(chan))

\* C19: error item stops the loop: when the loop receives an error item,
\* import returns the download error, with every batch received before
\* committed (nothing staged is left uncommitted and the durable store and
\* checkpoint are at the height of the last batch), and without any
\* append, checkpoint save or commit: store, writers and collector are
\* left as they were and no batch is opened; an invocation that returned
\* the download error has opened and committed one batch for each archive
\* it received before the error item.
ErrorItemStops ==
    [][ /\ (ErrorItemNext /\ pc' \notin {"recv", "crashed"}) =>
                /\ pc' = "failed"
                /\ error' = "download"
                /\ pending = store
                /\ store.checkpoint = height
                /\ highest_block(store) = height
                /\ UNCHANGED <<store, pending, hash_collector, batches, height, td>>
        /\ (error' = "download") =>
                /\ pc' = "failed"
                /\ IsErrorItem(Some(received'[Len(received')]))
                /\ Len(batches') = Len(received') - 1
                /\ pending' = store'
                /\ store'.checkpoint = height'
      ]_vars

\* the third item of the stream was an error item: import returned its
\* error after the batches of the first two archives were committed
ErrorItemStopsWitness ==
    /\ pc = "failed"
    /\ error = "download"
    /\ Len(received) = 3
    /\ Len(batches) = 2
    /\ store.checkpoint > InitialHeight
    /\ store = pending

----------------------------------------------------------------------------
(* C20 *)

\* the store has no total-difficulty record for its highest header
NoTdRecord == header_td_by_number(store, highest_block(store)) = None

\* C20: seeding failure: when the store has no total-difficulty record for
\* its highest header, the seeding step of import fails with
\* TotalDifficultyNotFound and changes nothing; an invocation that returned
\* this error has received no item of the bridge, opened no batch,
\* collected nothing, staged nothing and left the store as it found it.
SeedingFailure ==
    [][ /\ (pc = "seed" /\ NoTdRecord /\ pc' # "seed") =>
                /\ pc' = "failed"
                /\ error' = "TotalDifficultyNotFound"
                /\ UNCHANGED <<store, pending, chan, received, batches,
                               hash_collector, height, td>>
        /\ (error' = "TotalDifficultyNotFound") =>
                /\ pc = "seed"
                /\ pc' = "failed"
                /\ NoTdRecord
                /\ received' = <<>>
                /\ batches' = <<>>
                /\ hash_collector' = <<>>
                /\ pending' = store'
                /\ store' = store
                /\ store'.checkpoint = 0
                /\ Len(chan') = Len(sent')
      ]_vars

\* import failed at its seeding while the bridge had already sent two
\* archives, which stay in the channel
SeedingFailureWitness ==
    /\ pc = "failed"
    /\ error = "TotalDifficultyNotFound"
    /\ store = store0
    /\ store.headers = <<>>
    /\ Len(chan) >= 2
    /\ received = <<>>

----------------------------------------------------------------------------
(* C21 *)

\* the store is empty: no header and no total-difficulty record
EmptyStore == store.headers = <<>> /\ NoTdRecord

\* C21 as stated: empty store seeding: on an empty store the seeding step
\* of import seeds height 0 and total difficulty zero and goes on to
\* receive archives, without an error.
EmptyStoreSeedsZero ==
    [][ (pc = "seed" /\ EmptyStore /\ pc' # "seed") =>
            /\ pc' = "recv"
            /\ height' = 0
            /\ td' = 0
            /\ error' = "none"
      ]_vars

----------------------------------------------------------------------------
(* C22 *)

\* C22: the hash collector gets a pair only in a turn of the loop on a
\* block above last_header_number and not past the range end, never for a
\* skipped block or a block past the range end; the pair is (hash, number)
\* of that block, it was not collected before, and in that same turn the
\* header, the body and all receipts of the block were appended and its
\* receipt range closed; every block this invocation has appended is in
\* the collector once, the block of a failed turn excepted.
CollectedOncePerAppended ==
    [][ /\ (hash_collector' # hash_collector /\ pc' \notin {"crashed", "seed"}) =>
                /\ TakesBlock
                /\ BlockNumber > last_header_number
                /\ BlockNumber <= range.end
                /\ hash_collector' = Append(hash_collector,
                        <<hash_slow(era_files[meta][pos]), BlockNumber>>)
                /\ \A i \in DOMAIN hash_collector : hash_collector[i][2] # BlockNumber
                /\ Len(pending'.headers) = Len(pending.headers) + 1
                /\ pending'.headers[BlockNumber + 1].hash = hash_slow(era_files[meta][pos])
                /\ Len(pending'.bodies) = BlockNumber + 1
                /\ Len(pending'.receipts) =
                        Len(pending.receipts) + era_files[meta][pos].txs
                /\ pending'.receipts_block = BlockNumber + 1
                /\ pc' = "drain"
        /\ (TakesBlock /\ (BlockNumber <= last_header_number
                            \/ BlockNumber > range.end)) =>
                hash_collector' = hash_collector
        /\ (pc' \in {"drain", "save", "commit", "recv", "index"}) =>
                /\ Len(hash_collector') = highest_block(pending') - SeededHeight'
                /\ \A i \in DOMAIN hash_collector' :
                        hash_collector'[i][2] = SeededHeight' + i
      ]_vars

\* in one batch a block was skipped, a block was appended and collected
\* and the loop ended on a block past the range end
CollectedOncePerAppendedWitness ==
    /\ pc = "save"
    /\ LastYielded.kind = "block"
    /\ LastYielded.number > range.end
    /\ yielded[1].number <= range.start
    /\ Len(hash_collector) >= 2
    /\ Len(pending.headers) > Len(store.headers)

----------------------------------------------------------------------------
(* C23 *)

\* C23: missing block-body index: a turn of the loop that has written the
\* header and the body of a block and does not close the block's receipt
\* range ends the run with the panic on the missing body index; the run
\* that ended so has appended no receipt of that block, has not collected
\* its hash, has committed nothing of the batch, and takes no further
\* step: nothing is retried.
MissingBodyIndexFatal ==
    [][ /\ (TakesBlock /\ Len(pending'.bodies) > Len(pending.bodies)
                /\ pending'.receipts_block = pending.receipts_block) =>
                (pc' = "failed" /\ error' = "panic")
        /\ (error' = "panic") =>
                /\ TakesBlock
                /\ pc' = "failed"
                /\ Len(pending'.headers) = BlockNumber + 1
                /\ Len(pending'.bodies) = BlockNumber + 1
                /\ pending'.receipts = pending.receipts
                /\ pending'.receipts_block = BlockNumber
                /\ hash_collector' = hash_collector
                /\ store' = store
                /\ highest_block(store') = from
                /\ store'.checkpoint = from
        /\ pc # "failed"
      ]_vars

\* the body index of a block with a receipt was missing in the second
\* batch, after another block of that batch had been appended
MissingBodyIndexWitness ==
    /\ pc = "failed"
    /\ error = "panic"
    /\ Len(batches) = 2
    /\ era_files[meta][pos - 1].txs > 0
    /\ Len(pending.headers) > Len(store.headers) + 1
    /\ Len(pending.bodies) = Len(pending.headers)
    /\ pending.receipts_block = Len(pending.headers) - 1

----------------------------------------------------------------------------
(* C24 *)

\* the pairs of the hash collector
Collected == {hash_collector[i] : i \in DOMAIN hash_collector}

----------------------------------------------------------------------------
(* C25: decode *)

\* C25: decode is all-or-nothing and stateless: a call returns the triple
\* (header, body, receipts) of the tuple exactly when the reader's item is a
\* tuple and all three of its blobs decode; an error item of the reader or
\* a blob that does not decode gives an error that carries no part of the
\* block; and the call changes nothing of the pipeline (store, writers,
\* cursor, total difficulty, collector, marks).
DecodeAllOrNothing ==
    [][ (decoded' # decoded) =>
            LET r == Unwrap(decoded')
            IN  /\ decoded = None
                /\ r.ok <=> (raw.ok /\ raw.bad = {})
                /\ r.ok => r = [ok |-> TRUE, block |-> raw.tuple]
                /\ ~r.ok => DOMAIN r = {"ok", "err"}
                /\ UNCHANGED <<input, store, pending, bridge, pc, height, td,
                               batch, hash_collector, marked, error, raw>>
      ]_vars

\* a tuple whose header and body decode and whose receipts do not was
\* handed to decode, and decode returned an error
DecodeAllOrNothingWitness ==
    /\ decoded # None
    /\ raw.ok
    /\ raw.bad = {"receipts"}
    /\ ~Unwrap(decoded).ok

----------------------------------------------------------------------------
(* C26: the bounds of block_numbers *)

\* the numbers of the blocks process_iter appended
AppendedNumbers ==
    {pending.headers[i].number : i \in (Len(store0.headers) + 1)..Len(pending.headers)}

\* the numbers of the blocks the sequence yielded
YieldedNumbers ==
    {yielded[i].number : i \in {j \in DOMAIN yielded : yielded[j].kind = "block"}}

\* the number lies inside the range: at or above an included start bound,
\* above an excluded one, at or below an included end bound, below an
\* excluded one
contains(rg, number) ==
    /\ CASE rg.start_kind = "Included" -> rg.start <= number
          [] rg.start_kind = "Excluded" -> rg.start < number
          [] rg.start_kind = "Unbounded" -> TRUE
    /\ CASE rg.end_kind = "Included" -> number <= rg.end
          [] rg.end_kind = "Excluded" -> number < rg.end
          [] rg.end_kind = "Unbounded" -> TRUE

\* C26: for every kind of start and end bound (included, excluded,
\* unbounded), when process_iter has returned, the blocks it appended are
\* exactly the yielded blocks whose numbers lie inside block_numbers: it
\* skipped the blocks below the start bound and stopped at the first block
\* past the end bound.
RangeExact ==
    (pc = "save") => AppendedNumbers = {n \in YieldedNumbers : contains(range, n)}

----------------------------------------------------------------------------
(* C27: the height import returns *)

\* C27: returned height: when import returns Ok(height), height is the
\* processed_through of the checkpoint last committed, which is the highest
\* block number appended and committed (nothing is left uncommitted), or
\* the seeded height when this invocation appended no block.
ReturnedHeight ==
    (pc = "done") =>
        /\ height = store.checkpoint
        /\ height = highest_block(store)
        /\ pending = store
        /\ (hash_collector = <<>>) => height = SeededHeight
        /\ (hash_collector # <<>>) =>
                height = hash_collector[Len(hash_collector)][2]

\* an invocation returned a height above the one it was seeded with, after
\* two committed batches
ReturnedHeightWitness ==
    /\ pc = "done"
    /\ Len(batches) = 2
    /\ height > SeededHeight
    /\ height = store.checkpoint

----------------------------------------------------------------------------
(* C28: record_raw_log *)

\* the rows of the table with the primary key `key`
RowsOf(key) == {r \in hopr_raw_logs : primary_key(r) = key}

\* the topics a row carries: its topic columns that are not NULL, in order
RowTopics(r) == r.topic0 \o r.topic1 \o r.topic2 \o r.topic3

\* the first n elements of a sequence
Prefix(seq, n) == SubSeq(seq, 1, IF Len(seq) < n THEN Len(seq) ELSE n)

----------------------------------------------------------------------------
(* C29: the order of the steps on one block *)

\* a turn of the loop that took a block tuple from the sequence
TurnOnBlock == pc = "drain" /\ pos' = pos + 1 /\ pc' \in {"drain", "save", "failed"}

\* what such a turn did to the store as the writers see it
HeaderAppended == Len(pending'.headers) = Len(pending.headers) + 1
BodyAppended == Len(pending'.bodies) = Len(pending.bodies) + 1
ReceiptsAppended ==
    Len(pending'.receipts) = Len(pending.receipts) + era_files[meta][pos].txs
BlockIncremented == pending'.receipts_block = pending.receipts_block + 1
PairCollected == Len(hash_collector') = Len(hash_collector) + 1

\* C29: per-block step order: for a newly appended block the total
\* difficulty is increased by the header's difficulty, then the header is
\* appended with the increased total, then the body, then the receipts,
\* then increment_block(number) is called, then (hash, number) is
\* collected: whatever a turn of the loop has done is a prefix of this
\* list, and a failure leaves exactly the steps before it done.  The height
\* of import changes only when process returns Ok, to a block whose
\* appends succeeded, never on a turn that failed.
StepOrder ==
    [][ TurnOnBlock =>
            LET b == era_files[meta][pos]
            IN  /\ PairCollected \/ hash_collector' = hash_collector
                /\ PairCollected =>
                        /\ BlockIncremented
                        /\ hash_collector'[Len(hash_collector')] = <<hash_slow(b), b.number>>
                /\ BlockIncremented \/ pending'.receipts_block = pending.receipts_block
                /\ BlockIncremented => (ReceiptsAppended /\ BodyAppended)
                /\ ReceiptsAppended \/ pending'.receipts = pending.receipts
                /\ (pending'.receipts # pending.receipts) => BodyAppended
                /\ BodyAppended \/ pending'.bodies = pending.bodies
                /\ BodyAppended => HeaderAppended
                /\ HeaderAppended \/ pending'.headers = pending.headers
                /\ HeaderAppended =>
                        /\ td' = td + b.difficulty
                        /\ pending'.headers[Len(pending'.headers)].number = b.number
                        /\ pending'.headers[Len(pending'.headers)].td = td'
                /\ (td' # td) => td' = td + b.difficulty
                /\ (pc' = "failed" /\ error' = "ordering" /\ ~HeaderAppended) =>
                        /\ td' = td + b.difficulty
                        /\ pending' = pending
                /\ (pc' = "failed" /\ error' = "write") =>
                        (HeaderAppended /\ ~BodyAppended)
                /\ (pc' = "failed" /\ error' = "panic") =>
                        /\ BodyAppended
                        /\ pending'.receipts = pending.receipts
                        /\ ~BlockIncremented
                /\ (pc' = "failed" /\ error' = "insert") =>
                        (BlockIncremented /\ ~PairCollected)
                /\ (pc' = "failed") => height' = height
                /\ (height' # height) =>
                        /\ pc' = "save"
                        /\ height' = highest_block(pending')
                        /\ height' = last_header_number
      ]_vars

\* a block was appended in full and collected, with its header carrying the
\* increased total difficulty, and the body write of the next block failed
\* after its header was appended
StepOrderWitness ==
    /\ pc = "failed"
    /\ error = "write"
    /\ hash_collector # <<>>
    /\ Len(pending.headers) = Len(pending.bodies) + 1
    /\ pending.headers[Len(pending.headers)].td = td
    /\ td > 0
    /\ pending.receipts_block = Len(pending.bodies)

----------------------------------------------------------------------------
(* C30: the numbering of the receipts *)

\* C30: receipt numbering: a block appended with k receipts has them
\* appended with the transaction numbers first_tx_num, first_tx_num + 1,
\* .., first_tx_num + k - 1, where first_tx_num is the body index recorded
\* for that block, and increment_block(number) is called exactly once for
\* it, after its last receipt and before any append of the next block.
ReceiptNumbering ==
    [][ TurnOnBlock =>
            LET b == era_files[meta][pos]
                first == pending'.bodies[b.number + 1].first_tx_num
            IN  /\ (pending'.receipts # pending.receipts \/ BlockIncremented) =>
                        /\ BodyAppended
                        /\ b.number + 1 = Len(pending'.bodies)
                        /\ pending'.bodies[b.number + 1].tx_count = b.txs
                        /\ pending'.receipts =
                                pending.receipts \o [i \in 1..b.txs |-> first + i - 1]
                /\ BlockIncremented \/ pending'.receipts_block = pending.receipts_block
                /\ BlockIncremented => pending.receipts_block = b.number
                /\ (BodyAppended /\ pc' # "failed") => BlockIncremented
                /\ HeaderAppended =>
                        /\ pending.receipts_block = Len(pending.headers)
                        /\ pending.receipts_block = Len(pending.bodies)
      ]_vars

\* two blocks with receipts were appended one after the other, the second
\* numbered from the body index the first left
ReceiptNumberingWitness ==
    /\ pc = "drain"
    /\ Len(pending.bodies) >= Len(store.bodies) + 2
    /\ pending.bodies[Len(pending.bodies)].tx_count > 1
    /\ pending.bodies[Len(pending.bodies)].first_tx_num > 0
    /\ pending.bodies[Len(pending.bodies) - 1].tx_count > 0
    /\ pending.receipts_block = Len(pending.bodies)
    /\ Len(pending.receipts) > Len(store.receipts) + 1

----------------------------------------------------------------------------
(* C31: the states of a batch *)

\* a batch is open: an archive was received for it and it has neither been
\* committed nor failed
BatchOpen == pc \in {"drain", "save", "commit"}

\* C31: batch state machine: every batch goes through receive archive, open
\* range, drain blocks, save checkpoint, commit, in that order; an archive
\* is received only when no batch is open and everything the batches before
\* it wrote is committed; an open batch ends only by its commit or by a
\* fatal error, and the step that fails writes no checkpoint and commits
\* nothing; after it the invocation takes no step.
BatchStateMachine ==
    [][ /\ (pc = "recv") => pc' \in {"recv", "drain", "index", "failed", "crashed"}
        /\ (pc = "drain") => pc' \in {"drain", "save", "failed"}
        /\ (pc = "save") => pc' \in {"save", "commit", "failed"}
        /\ (pc = "commit") => pc' \in {"commit", "recv", "index", "failed"}
        /\ (received' # received /\ pc' # "crashed") =>
                /\ pc = "recv"
                /\ ~BatchOpen
                /\ pending = store
                /\ Len(received') = Len(received) + 1
        /\ (batches' # batches /\ pc' \notin {"crashed", "seed"}) =>
                /\ pc = "recv" /\ pc' = "drain"
                /\ received' # received
                /\ Len(batches') = Len(batches) + 1
        /\ (pending'.headers # pending.headers /\ pc' \notin {"crashed", "seed"}) =>
                pc = "drain"
        /\ (pending'.checkpoint # pending.checkpoint /\ pc' \notin {"crashed", "seed"}) =>
                (pc = "save" /\ pc' = "commit")
        /\ (store' # store) =>
                \/ pc = "commit" /\ pc' \in {"recv", "index"} /\ store' = pending
                \/ pc = "index_commit"
        /\ (BatchOpen /\ ~BatchOpen') =>
                \/ pc = "commit" /\ pc' \in {"recv", "index"} /\ store' = pending
                \/ pc' = "failed" /\ error' # "none" /\ store' = store
                                  /\ pending'.checkpoint = pending.checkpoint
        /\ (error' # error /\ pc' \notin {"crashed", "seed"}) => pc' = "failed"
        /\ pc # "failed"
      ]_vars

\* two batches were committed one after the other and the third failed
\* while it was drained
BatchStateMachineWitness ==
    /\ pc = "failed"
    /\ error = "write"
    /\ Len(batches) = 3
    /\ Len(received) = 3
    /\ store.checkpoint = batches[3][1]
    /\ batches[2][1] > batches[1][1]

----------------------------------------------------------------------------
(* C32: the size of a batch *)

\* the headers appended by the open batch and not yet committed
BatchHeaders ==
    {pending.headers[i] : i \in (Len(store.headers) + 1)..Len(pending.headers)}

\* C32: bounded batch size: every batch range is [height, height + STEP], or
\* [height, max_height] when max_height lies below height + STEP, and in
\* every batch at most STEP blocks are appended, each with a number in
\* (height, height + STEP], whatever the number of blocks in the archive
\* file.
BoundedBatchSize ==
    /\ \A i \in DOMAIN batches :
        \/ batches[i][2] = batches[i][1] + ERA_STEP
        \/ /\ IsSome(max_height)
           /\ batches[i][2] = Unwrap(max_height)
           /\ batches[i][1] + ERA_STEP > Unwrap(max_height)
    /\ BatchOpen =>
            /\ range.start = batches[Len(batches)][1]
            /\ range.end = batches[Len(batches)][2]
            /\ range.start = from
    /\ Cardinality(BatchHeaders) <= ERA_STEP
    /\ Len(pending.headers) - Len(store.headers) <= ERA_STEP
    /\ \A h \in BatchHeaders :
        /\ h.number > from
        /\ h.number <= from + ERA_STEP
        /\ h.number <= range.end

\* a batch has appended STEP blocks of an archive file that holds more than
\* STEP blocks above the height
BoundedBatchSizeWitness ==
    /\ pc = "save"
    /\ ~stop
    /\ Cardinality(BatchHeaders) = ERA_STEP
    /\ Len(era_files[meta]) > ERA_STEP
    /\ LastYielded.kind = "block"
    /\ LastYielded.number = from + ERA_STEP + 1

----------------------------------------------------------------------------
(* C33: no block is lost *)

\* the archives the loop received
DeliveredFiles == {received[i].file : i \in {j \in DOMAIN received : received[j].ok}}

\* C33: no block is lost: in a successful run without max_height over
\* archives that together hold a contiguous block sequence starting right
\* above the initial height, the final height equals the highest block
\* number contained in any delivered archive, whatever the number of blocks
\* per archive file compared with STEP.
NoBlockLost ==
    (pc = "done" /\ max_height = None /\ runs = 1) =>
        /\ \A k \in DeliveredFiles : \A i \in DOMAIN era_files[k] :
                era_files[k][i].number <= height
        /\ \/ DeliveredFiles = {} /\ height = InitialHeight
           \/ \E k \in DeliveredFiles : \E i \in DOMAIN era_files[k] :
                era_files[k][i].number = height

----------------------------------------------------------------------------
(* C34: cleanup and durability *)

\* C34: cleanup safety: whenever an archive has been marked processed, the
\* batch that imported its blocks has been committed: no block appended from
\* a marked archive is still uncommitted, and a failure of the checkpoint
\* save or of the commit never leaves an archive marked processed while its
\* blocks are not durable.
CleanupSafety ==
    \A k \in DOMAIN marked :
        (marked[k] > 0 /\ meta = k) => BatchHeaders = {}

----------------------------------------------------------------------------
(* C35: increasing, lock-stepped appends *)

\* the last n numbers the hash collector holds
LastCollected(n) ==
    {hash_collector[i][2] : i \in (Len(hash_collector) - n + 1)..Len(hash_collector)}

\* C35: strictly increasing, lock-stepped appends: over a whole run every
\* block number handed to the header append is above every number appended
\* before it, and in every committed batch the header append, the body
\* append, increment_block of the receipts writer and the hash-collector
\* insert were performed for exactly the same set of block numbers.
LockSteppedAppends ==
    [][ /\ (TurnOnBlock /\ (HeaderAppended \/ (pc' = "failed" /\ error' = "ordering"))) =>
                \A i \in DOMAIN pending.headers :
                    pending.headers[i].number < era_files[meta][pos].number
        /\ (pc = "commit" /\ store' # store) =>
                LET H == {store'.headers[i].number :
                            i \in (Len(store.headers) + 1)..Len(store'.headers)}
                    B == {i - 1 : i \in (Len(store.bodies) + 1)..Len(store'.bodies)}
                    R == store.receipts_block..(store'.receipts_block - 1)
                IN  /\ H = B
                    /\ B = R
                    /\ Cardinality(H) <= Len(hash_collector)
                    /\ LastCollected(Cardinality(H)) = H
                    /\ Len(store'.headers) = Len(store.headers) + Cardinality(H)
      ]_vars

\* a second batch of two blocks or more was committed after a first one
LockSteppedAppendsWitness ==
    /\ pc = "recv"
    /\ runs = 1
    /\ Len(batches) = 2
    /\ batches[2][1] > batches[1][1]
    /\ Len(store.headers) >= batches[2][1] + 3
    /\ store.checkpoint = Len(store.headers) - 1
    /\ Len(hash_collector) = Len(store.headers) - Len(store0.headers)

----------------------------------------------------------------------------
(* C36: a ceiling at or below the seeded height *)

\* max_height is at or below the height this invocation was seeded with
CeilingBelowSeed ==
    /\ pc \notin {"seed", "crashed"}
    /\ IsSome(max_height)
    /\ Unwrap(max_height) <= SeededHeight

\* C36: if max_height is less than or equal to the height seeded from the
\* store, import appends no block, never lowers the height or the
\* checkpoint, and returns the seeded height after at most one batch, which
\* is empty.
LowCeilingAppendsNothing ==
    CeilingBelowSeed =>
        /\ pending.headers = store.headers
        /\ pending.bodies = store.bodies
        /\ pending.receipts = store.receipts
        /\ hash_collector = <<>>
        /\ Len(batches) <= 1
        /\ height = SeededHeight
        /\ pending.checkpoint = store.checkpoint
        /\ (error # "TotalDifficultyNotFound") => store.checkpoint = SeededHeight
        /\ (batches # <<>>) => (stop /\ batches[1][2] = Unwrap(max_height))
        /\ (pc = "done") => (height = SeededHeight /\ store.index = store0.index)

\* import returned the seeded height after one batch that refused a block
\* above the ceiling
LowCeilingAppendsNothingWitness ==
    /\ CeilingBelowSeed
    /\ pc = "done"
    /\ Len(batches) = 1
    /\ Unwrap(max_height) < SeededHeight
    /\ LastYielded.kind = "block"
    /\ LastYielded.number > SeededHeight

----------------------------------------------------------------------------
(* C37: the schedule of the bridge task and the loop *)

\* the failures that the store before the run and the items of the
\* downloader decide; the others (write, decode, hook, checkpoint, commit)
\* are inputs of their own
DecidedErrors == {"download", "ordering", "TotalDifficultyNotFound"}

\* the first invocation has ended, by Ok or by a failure the inputs decide
FirstRunEnded ==
    /\ runs = 1
    /\ \/ pc = "done"
       \/ pc = "failed" /\ error \in DecidedErrors

\* C37: schedule independence: for a fixed initial store, max_height and
\* sequence of items yielded by the downloader, the outcome of import (the
\* returned height or the error, the appended blocks, the checkpoint, the
\* hash index entries) is the same under every interleaving of the producer
\* task and the processing loop: it is the value of a function of the
\* store, max_height and the items sent, which reads the items in the order
\* sent and no item beyond the one that ends the loop.
ScheduleIndependence ==
    FirstRunEnded =>
        LET r == import_of(store0, era_files, sent, max_height)
        IN  /\ r.outcome # "waiting"
            /\ r.used <= Len(sent)
            /\ r.used = Len(received) + (IF r.outcome = "ok" /\ ~stop THEN 1 ELSE 0)
            /\ (pc = "done") <=> (r.outcome = "ok")
            /\ (pc = "failed") => error = r.outcome
            /\ hash_collector = r.coll
            /\ td = r.td
            /\ (pc = "done") =>
                    /\ height = r.last
                    /\ store = build_index(r.w, r.coll)
            /\ (pc = "failed") =>
                    /\ pending = r.w
                    /\ store.checkpoint = r.last \/ error = "TotalDifficultyNotFound"

\* import returned after the clamped batch while the producer had run
\* ahead: items it sent were never received
ScheduleIndependenceWitness ==
    /\ pc = "done"
    /\ runs = 1
    /\ stop
    /\ Len(received) >= 2
    /\ Len(sent) > Len(received)
    /\ chan # <<>>

----------------------------------------------------------------------------
(* C38: termination under fair scheduling *)

\* the invocation has ended without Ok: an operation failed, an error item
\* arrived, or the process was stopped
EndedOtherwise == error # "none" \/ pc \in {"failed", "crashed"}

\* C38: termination: if the downloader yields finitely many archives, each
\* archive holds finitely many tuples and no decode or store operation
\* fails, then under fair scheduling of the producer and the processing
\* loop import eventually returns Ok, and only after the terminal
\* hash-index pass; the processing loop takes no step at rx.recv() while
\* the channel holds no item and the producer is still running.
Termination ==
    /\ (pc = "seed") ~> (pc = "done" \/ EndedOtherwise)
    /\ [][/\ (pc' = "done" /\ pc # "done") =>
                (pc = "index_commit" /\ error = "none")
          /\ (pc = "recv" /\ pc' \notin {"recv", "crashed"}) =>
                (chan # <<>> \/ task = "done")]_vars

\* import returned Ok after the producer ended the stream and the loop took
\* every archive and the sentinel
TerminationWitness ==
    /\ pc = "done"
    /\ error = "none"
    /\ runs = 1
    /\ ~stop
    /\ task = "done"
    /\ chan = <<>>
    /\ Len(received) = Len(era_files)
    /\ Len(received) >= 2
    /\ Len(store.headers) > Len(store0.headers)

----------------------------------------------------------------------------
(* C39: the FinishedHeight events of the indexers *)

\* the chain of the notification install is at
Chain == Unwrap(notification)

\* the events sent are the tips of the committed chains the stream yielded,
\* in the order of the stream, except for the chain install is at
EventsFollowCommits ==
    /\ Len(events) <= Len(committed)
    /\ \A i \in 1..Len(events) : events[i] = committed[i]
    /\ ipc \in {"next", "ended"} => events = committed
    /\ ipc \in {"scan", "send"} =>
            /\ Chain.kind = "ChainCommitted"
            /\ Len(committed) = Len(events) + 1
            /\ committed[Len(committed)] = tip(Chain)
    /\ ipc = "failed" => Len(committed) <= Len(events) + 1

\* C39: indexer acknowledgement: for every ChainCommitted notification the
\* deposit and the HOPR indexer emit exactly one FinishedHeight event
\* carrying the tip of that committed chain, after all blocks of the
\* notification were scanned and in notification order; for any other
\* notification kind they emit no event. (A send that fails ends install
\* with the error, and no event follows.)
IndexerAcknowledgement ==
    /\ []EventsFollowCommits
    /\ [][/\ (events' # events) =>
                /\ ipc = "send"
                /\ Chain.kind = "ChainCommitted"
                /\ block = Chain.len
                /\ events' = Append(events, tip(Chain))
          /\ (ipc = "scan" /\ ipc' = "send") => block = Chain.len
          /\ (ipc = "scan" /\ ipc' = "scan") => block' <= Chain.len
          /\ (ipc = "next" /\ notification' # notification
                /\ Unwrap(notification').kind # "ChainCommitted") =>
                (ipc' = "next" /\ events' = events)]_vars

\* two committed chains were acknowledged, with a notification of another
\* kind that was not
IndexerAcknowledgementWitness ==
    /\ ipc = "next"
    /\ seen = 3
    /\ Len(events) = 2
    /\ events = committed
    /\ events[1] < events[2]
    /\ Chain.kind = "ChainCommitted"
    /\ Chain.len = 2

----------------------------------------------------------------------------
(* C40: the address-only mode of the HOPR indexer *)

\* C40: in address-only mode (HOPR_ONLY=1) the HOPR indexer counts a log as
\* a match only if the log's address is one of the HOPR contract addresses
\* (channels, announcements, network registry, node safe registry, ticket
\* price oracle, winning probability oracle); a log from any other address
\* is never counted.
AddressOnlyCountsHoprContracts ==
    [][(/\ indexer = "hopr"
        /\ address_only
        /\ block_matches' > block_matches) =>
            /\ last_log' # None
            /\ Unwrap(last_log').address \in HoprContracts]_vars

============================================================================
